---------------------------- MODULE Spec2Model ----------------------------
(***************************************************************************)
(* Model of the media transformation pipeline of the Film Grade content   *)
(* script (contents/imageProcessor.document_start.ts).                     *)
(*                                                                         *)
(* One action is one event-loop task of the single-threaded script: the    *)
(* code of an async function between two awaits, a timer callback, a      *)
(* message handler, or one step of the host page's own script.  Timers    *)
(* fire at any time after they were set.  The page is served from a host  *)
(* other than medium.com, so processImage never delegates to              *)
(* processMediumImage (line 638).                                          *)
(*                                                                         *)
(* Strings that the code concatenates or tests with startsWith are        *)
(* sequences of tokens; the empty sequence is an absent attribute.        *)
(***************************************************************************)
EXTENDS Integers, Sequences, FiniteSets, TLC

(***************************************************************************)
(* Program constants (CONFIG, lines 190-223).                              *)
(***************************************************************************)
MIN_IMAGE_SIZE == 30
LARGE_IMAGE_SIZE == 200
BATCH_SIZE == 6
VIEWPORT_EXPANSION == 4000
MAX_CONCURRENT == 4
MAX_CACHE_SIZE == 300
MAX_IMAGES_TO_PROCESS == 150

(***************************************************************************)
(* Bounds of the model.                                                    *)
(***************************************************************************)
\* control messages (applyFilter, refresh) the page receives
MaxMessages == 1
\* writes of the host page's script to a surface reference
MaxHostWrites == 1
\* scheduling runs that are in progress at the same time
MaxRuns == 2
\* jobs of one candidate that are in flight at the same time
MaxJobs == 2
\* pending timers of one kind on one candidate
MaxTimers == 1

(***************************************************************************)
(* The host document: the candidates' geometry and context.  The window   *)
(* is 1000 x 800.                                                          *)
(***************************************************************************)
innerWidth == 1000
innerHeight == 800

Elems == 1 .. 12

\* kind: img, or div for a div with an inline background-image; rect: getBoundingClientRect();
\* picture: the img is a child of a <picture>; url: the source the host gave it
ElemTable ==
    <<  [kind |-> "img", width |-> 120, height |-> 90,  top |-> 100,  picture |-> FALSE, url |-> <<"u1">>],
        [kind |-> "img", width |-> 640, height |-> 360, top |-> 300,  picture |-> TRUE,  url |-> <<"u2">>],
        [kind |-> "img", width |-> 120, height |-> 90,  top |-> 2000, picture |-> FALSE, url |-> <<"u3">>],
        [kind |-> "img", width |-> 100, height |-> 100, top |-> 10,   picture |-> FALSE, url |-> <<"u4">>],
        [kind |-> "img", width |-> 100, height |-> 100, top |-> 120,  picture |-> FALSE, url |-> <<"u5">>],
        [kind |-> "img", width |-> 100, height |-> 100, top |-> 230,  picture |-> FALSE, url |-> <<"u6">>],
        [kind |-> "img", width |-> 100, height |-> 100, top |-> 340,  picture |-> FALSE, url |-> <<"u7">>],
        [kind |-> "img", width |-> 100, height |-> 100, top |-> 450,  picture |-> FALSE, url |-> <<"u8">>],
        [kind |-> "img", width |-> 100, height |-> 100, top |-> 6000, picture |-> FALSE, url |-> <<"u9">>],
        [kind |-> "img", width |-> 20,  height |-> 20,  top |-> 560,  picture |-> FALSE, url |-> <<"u10">>],
        [kind |-> "div", width |-> 100, height |-> 100, top |-> 600,  picture |-> FALSE, url |-> <<"u11">>],
        [kind |-> "div", width |-> 20,  height |-> 20,  top |-> 720,  picture |-> FALSE, url |-> <<"u12">>] >>

Kind(e) == ElemTable[e].kind
Left(e) == 0
Top(e) == ElemTable[e].top
Right(e) == Left(e) + ElemTable[e].width
Bottom(e) == Top(e) + ElemTable[e].height

None == << >>

(***************************************************************************)
(* Settings snapshots.                                                     *)
(***************************************************************************)
Presets == {"none", "kodak"}

Settings == [preset : Presets, grain : BOOLEAN, vig : BOOLEAN, enabled : BOOLEAN]

Snap(p, g, v, en) == [preset |-> p, grain |-> g, vig |-> v, enabled |-> en]

\* the snapshots the settings UI and the context menu produce in this model
SettingsChoices ==
    { Snap("kodak", FALSE, FALSE, TRUE),
      Snap("kodak", TRUE, FALSE, TRUE),
      Snap("kodak", FALSE, FALSE, FALSE),
      Snap("none", FALSE, FALSE, TRUE) }

(***************************************************************************)
(* Fingerprint and produced asset.                                         *)
(***************************************************************************)
Flag(b) == IF b THEN "1" ELSE "0"

\* `${originalSrc}-${preset}-${enableGrain ? 1 : 0}-${enableVignette ? 1 : 0}`
CacheKey(osrc, preset, grain, vig) ==
    osrc \o <<"-", preset, "-", Flag(grain), "-", Flag(vig)>>

\* canvas.toDataURL(): a data URL that the source and the applied effects determine
DataUrl(osrc, preset, grain, vig) ==
    <<"data:image">> \o CacheKey(osrc, preset, grain, vig)

\* value.startsWith('data:image')
IsDataImage(v) == Len(v) > 0 /\ Head(v) = "data:image"

(***************************************************************************)
(* One candidate's surface: the attributes and properties the pipeline    *)
(* reads and writes.                                                       *)
(*   src        the visible reference (src attribute)                      *)
(*   orig       dataset.filmGradeOriginalSrc                               *)
(*   processed  dataset.filmGradeProcessed = 'true'                        *)
(*   locked     dataset.filmGradeLocked = 'true'                           *)
(*   allow      dataset.filmGradeAllowSet: "unset", "true" or "false"      *)
(*   guard      the write-guard of lockImageSrc is installed               *)
(*   processing the in-flight marker data-film-grade-processing            *)
(*   shadow     the attribute data-film-grade-robust-shadow                *)
(*   wrapper    the overlay node: "none", or "attached" before the         *)
(*              original                                                   *)
(*   hidden     style.opacity = '0' on the original                        *)
(*   asked      not part of the surface, read by the properties only: the  *)
(*              value of the pipeline's last write to the reference        *)
(***************************************************************************)
NewSurface(e) ==
    [src |-> ElemTable[e].url, orig |-> None, processed |-> FALSE, locked |-> FALSE,
     allow |-> "unset", guard |-> FALSE, processing |-> FALSE, shadow |-> FALSE,
     wrapper |-> "none", hidden |-> FALSE, asked |-> None]

\* the guarded setter of src, lines 1652-1664, and the guarded setAttribute,
\* lines 1674-1684: the write takes effect when no guard is installed or the
\* pipeline has set filmGradeAllowSet to 'true'
\* a guard that tests nothing
GuardAdmitsAnyWrite(el) == TRUE

GuardAdmits(el) == ~el.guard \/ el.allow = "true"

\* element.src = value, or element.setAttribute('src', value)
WriteSrc(el, value) ==
    IF GuardAdmits(el) THEN [el EXCEPT !.src = value] ELSE el

\* allowSet = 'true'; src = value; allowSet = 'false' (lines 799-805, 811-813, 1099-1101)
AuthorizedWrite(el, value) ==
    [WriteSrc([el EXCEPT !.allow = "true"], value) EXCEPT !.allow = "false", !.asked = value]

\* lockImageSrc, lines 1634-1690
lockImageSrc(el) ==
    IF el.locked THEN el
    ELSE [el EXCEPT !.locked = TRUE, !.guard = TRUE]


\* the shouldUseShadowDOM predicate with the visibility test, lines 769-776: the
\* page is not a listed problematic site, no candidate has role=presentation or
\* data-nimg, and every candidate is rendered (offsetParent is not null)
UsesShadow(e) == ElemTable[e].picture

(***************************************************************************)
(* processImage and processBackgroundImage up to their first await.        *)
(***************************************************************************)
\* lines 635-641 (img) and 850-853 (background): the invocation returns at once
EntryBlocked(e, el, force) ==
    IF Kind(e) = "img"
    THEN el.src = None \/ (el.locked /\ ~force) \/ el.processing
    ELSE el.processing

\* lines 659-668 (img), 872-881 (background): the source the job will load
OriginalSrcOf(e, el) ==
    IF Kind(e) = "img" /\ IsDataImage(el.src) /\ el.orig # None THEN el.orig ELSE el.src

\* line 667: a data URL with a recorded original forces reprocessing
ForceOf(e, el, force) ==
    force \/ (Kind(e) = "img" /\ IsDataImage(el.src) /\ el.orig # None)

\* lines 681-687 and 891-897
CacheSkip(e, el, s, force, cch) ==
    /\ ~ForceOf(e, el, force)
    /\ CacheKey(OriginalSrcOf(e, el), s.preset, s.grain, s.vig) \in cch
    /\ el.processed

\* the invocation passes its in-flight check and goes on to load the image
StartsJob(e, el, s, force, cch) ==
    ~EntryBlocked(e, el, force) /\ ~CacheSkip(e, el, s, force, cch)

\* the surface after the synchronous part of the invocation
EntrySurface(e, el, s, force, cch) ==
    IF EntryBlocked(e, el, force) THEN el
    ELSE IF CacheSkip(e, el, s, force, cch) THEN [el EXCEPT !.processing = FALSE]
    ELSE [el EXCEPT !.processing = TRUE]

\* the invocation returned inside its try block, so that the finally block of
\* lines 831-838 schedules the delayed removal of the marker (img only: the
\* background variant returns before its try block, lines 891-897)
EntrySchedulesClear(e, el, s, force, cch) ==
    Kind(e) = "img" /\ ~EntryBlocked(e, el, force) /\ CacheSkip(e, el, s, force, cch)

\* the processing timeout of lines 646-651 was set and is not cleared on the
\* cache-skip return of line 686
EntryLeavesTimeout(e, el, s, force, cch) ==
    Kind(e) = "img" /\ ~EntryBlocked(e, el, force) /\ CacheSkip(e, el, s, force, cch)

(***************************************************************************)
(* The resilience layer.                                                   *)
(***************************************************************************)
\* attachShadow({mode: 'closed'}), line 1919
ShadowMode == "closed"

\* Element.shadowRoot: the root of an open shadow tree, null for a closed one
ShadowRootVisible(mode) == mode = "open"

\* robustShadowReplace, lines 1873-2033
robustShadowReplace(el) ==
    IF el.shadow THEN el
    ELSE [el EXCEPT !.shadow = TRUE, !.wrapper = "attached", !.hidden = TRUE]

\* the direct strategy, lines 780-806
CommitDirect(el, osrc, dataUrl) ==
    AuthorizedWrite([lockImageSrc(el) EXCEPT !.orig = osrc, !.processed = TRUE], dataUrl)

\* the commit of processBackgroundImage, lines 958-970
CommitBackground(el, osrc, dataUrl) ==
    [el EXCEPT !.orig = osrc, !.processed = TRUE, !.src = dataUrl, !.asked = dataUrl]

\* nothing was applied, lines 807-817 (img) and 971-977 (background)
NotProcessed(e, el) ==
    IF Kind(e) = "img"
    THEN [(IF el.orig # None /\ el.src # el.orig
           THEN [AuthorizedWrite(el, el.orig) EXCEPT !.processed = FALSE]
           ELSE el) EXCEPT !.orig = None]
    ELSE [(IF IsDataImage(el.src) /\ el.orig # None
           THEN [el EXCEPT !.src = el.orig, !.asked = el.orig, !.processed = FALSE]
           ELSE el) EXCEPT !.orig = None]

\* the catch blocks, lines 818-830 (img) and 978-985 (background)
\* (the background variant compares the serialized style, url("..."), with
\* `url('${original}')`, which never equals it, so it rewrites whenever an
\* original is recorded)
CatchRevert(e, el) ==
    IF Kind(e) = "img"
    THEN IF el.orig # None /\ el.src # el.orig
         THEN [AuthorizedWrite(el, el.orig) EXCEPT !.processed = FALSE]
         ELSE el
    ELSE IF el.orig # None
         THEN [el EXCEPT !.src = el.orig, !.asked = el.orig, !.processed = FALSE]
         ELSE el

\* a revert that writes the original without the pipeline's authorization
revertElementUnauthorized(e, el) ==
    [(IF el.orig # None /\ el.src # el.orig THEN WriteSrc(el, el.orig) ELSE el)
     EXCEPT !.orig = None, !.processed = FALSE, !.locked = FALSE, !.processing = FALSE,
            !.shadow = FALSE]

\* revertElement, lines 1083-1143
revertElement(e, el) ==
    LET a == IF el.wrapper = "attached" /\ ShadowRootVisible(ShadowMode)
             THEN [el EXCEPT !.wrapper = "none", !.hidden = FALSE, !.shadow = FALSE]
             ELSE el
        b == IF Kind(e) = "img"
             THEN [(IF a.orig # None /\ a.src # a.orig THEN AuthorizedWrite(a, a.orig) ELSE a)
                   EXCEPT !.orig = None, !.processed = FALSE, !.locked = FALSE]
             ELSE IF a.orig # None /\ IsDataImage(a.src)
                  THEN [a EXCEPT !.src = a.orig, !.asked = a.orig, !.orig = None,
                                 !.processed = FALSE]
                  ELSE a
    IN  [b EXCEPT !.processing = FALSE, !.shadow = FALSE]


(***************************************************************************)
(* Candidate discovery.                                                    *)
(***************************************************************************)
SeqOf(S) ==
    LET RECURSIVE Asc(_)
        Asc(T) == IF T = {} THEN << >>
                  ELSE LET m == CHOOSE x \in T : \A y \in T : x <= y
                       IN  <<m>> \o Asc(T \ {m})
    IN  Asc(S)

ToSet(q) == { q[i] : i \in 1 .. Len(q) }

Min(a, b) == IF a < b THEN a ELSE b

\* lines 356-361 and 385-390
InExpandedViewport(e) ==
    /\ Top(e) <= innerHeight + VIEWPORT_EXPANSION /\ Bottom(e) >= 0 - VIEWPORT_EXPANSION
    /\ Left(e) <= innerWidth + VIEWPORT_EXPANSION /\ Right(e) >= 0 - VIEWPORT_EXPANSION

\* lines 339-371 for img, 378-399 for background containers
Eligible(e, d) ==
    IF Kind(e) = "img"
    THEN /\ ~(ElemTable[e].width < MIN_IMAGE_SIZE \/ ElemTable[e].height < MIN_IMAGE_SIZE)
         /\ InExpandedViewport(e)
    ELSE /\ d[e].src # None
         /\ ~(IsDataImage(d[e].src) /\ d[e].orig # None)
         /\ InExpandedViewport(e)

\* lines 362-366 and 391-395
IsLarge(e) == ElemTable[e].width > LARGE_IMAGE_SIZE \/ ElemTable[e].height > LARGE_IMAGE_SIZE

\* lines 345-348 and 381-383: the scan stops at MAX_IMAGES_TO_PROCESS candidates
Capped(q) == SubSeq(q, 1, Min(Len(q), MAX_IMAGES_TO_PROCESS))

\* lines 362-366 and 391-395: the candidates go to the list of their size
BySize(q) == [regular |-> SelectSeq(q, LAMBDA e : ~IsLarge(e)),
              large   |-> SelectSeq(q, LAMBDA e : IsLarge(e))]

\* [...regular, ...large], lines 428 and 1164
Joined(found) == found.regular \o found.large

\* findMediaElements, lines 318-416: images in document order, then background
\* containers, each list split by size
findMediaElements(pg, d) ==
    LET imgs == SeqOf({e \in pg : Kind(e) = "img" /\ Eligible(e, d)})
        bgs  == SeqOf({e \in pg : Kind(e) # "img" /\ Eligible(e, d)})
    IN  BySize(Capped(imgs \o bgs))

\* line 1192
InViewport(e) ==
    /\ ElemTable[e].width > 0 /\ ElemTable[e].height > 0
    /\ Top(e) < innerHeight /\ Bottom(e) > 0
    /\ Left(e) < innerWidth /\ Right(e) > 0

(***************************************************************************)
(* State.                                                                  *)
(***************************************************************************)
(***************************************************************************)
(* LUT texts and the two parsers of them: parseCubeLUT of the content      *)
(* script (lines 486-522) and parseCubeLUT of the page                     *)
(* web-luts/examples/lights-out-test.html (lines 229-325).                 *)
(***************************************************************************)
\* the largest declared size and the largest number of colour rows of a text
MaxN == 3
MaxRows == 48

\* the value of Number(), parseInt() and parseFloat() for what is no numeral
\* (the numerals of the texts are all non-negative)
NaN == -1

\* a token of a line is a numeral (word = "") or a word
Num(n) == [word |-> "", num |-> n]
Word(w) == [word |-> w, num |-> 0]

\* a line after trim(): its tokens; wide says that its first two tokens are
\* separated by a tab or by several blanks, not by one blank
Line(tokens, wide) == [tokens |-> tokens, wide |-> wide]
BlankLine == Line(<< >>, FALSE)
CommentLine == Line(<<Word("#"), Word("note")>>, FALSE)
SizeLine(n, wide) == Line(<<Word("LUT_3D_SIZE"), Num(n)>>, wide)
RowLine(i) == Line(<<Num(i), Num(i), Num(i)>>, FALSE)

\* the texts: n is the declared size (0: the text has no size directive),
\* rows the number of colour rows (row i holds the colour <<i, i, i>>),
\* notes the comment and blank lines: none, a comment line after every row,
\* or a comment and a blank line after every row (and before the directive)
Texts == [n : 0 .. MaxN, rows : 0 .. MaxRows, wide : BOOLEAN,
          notes : {"none", "each", "both"}]

Stride(t) == IF t.notes = "none" THEN 1 ELSE IF t.notes = "each" THEN 2 ELSE 3

\* text.split('\n')
Lines(t) ==
    LET head == (IF t.notes = "none" THEN << >> ELSE <<CommentLine, BlankLine>>)
                \o (IF t.n = 0 THEN << >> ELSE <<SizeLine(t.n, t.wide)>>)
        body == [k \in 1 .. (t.rows * Stride(t)) |->
                    IF (k - 1) % Stride(t) = 0 THEN RowLine(((k - 1) \div Stride(t)) + 1)
                    ELSE IF (k - 1) % Stride(t) = 1 THEN CommentLine
                    ELSE BlankLine]
    IN  head \o body

\* what a parser yields: a table, or the error it throws
Table(size, data) == [ok |-> TRUE, size |-> size, data |-> data, error |-> ""]
Thrown(error) == [ok |-> FALSE, size |-> 0, data |-> << >>, error |-> error]
NoLut == Thrown("absent")

IsNumeral(tok) == tok.word = ""
Number(tok) == IF IsNumeral(tok) THEN tok.num ELSE NaN
Values(l) == [k \in 1 .. Len(l.tokens) |-> Number(l.tokens[k])]

\* trimmed.startsWith('#') || trimmed === ''
Skipped(l) == l.tokens = << >> \/ Head(l.tokens).word = "#"
\* trimmed.startsWith('LUT_3D_SIZE')
StartsWithSize(l) == Head(l.tokens).word = "LUT_3D_SIZE"

\* parseInt(trimmed.split(/\s+/)[1], 10), line 508
SizeBySpaces(l) == IF Len(l.tokens) >= 2 THEN Number(l.tokens[2]) ELSE NaN
\* parseInt(line.split(' ')[1], 10), lights-out-test.html line 244: the piece
\* after the first blank is empty or missing unless one blank separates
SizeByBlank(l) == IF Len(l.tokens) >= 2 /\ ~l.wide THEN Number(l.tokens[2]) ELSE NaN

\* a line that is neither skipped nor a size directive
IsOther(l) == ~Skipped(l) /\ ~StartsWithSize(l)
IsDirective(l) == ~Skipped(l) /\ StartsWithSize(l)

\* the loop of lines 498-517: the size is that of the last directive (0 when
\* there is none), the data are the other lines of three tokens, in order
ParseLines(lines) ==
    LET directives == SelectSeq(lines, IsDirective)
        rows       == SelectSeq(lines, LAMBDA l : IsOther(l) /\ Len(l.tokens) = 3)
    IN  Table(IF directives = << >> THEN 0 ELSE SizeBySpaces(directives[Len(directives)]),
              [k \in 1 .. Len(rows) |-> Values(rows[k])])

\* a parser that does not look at lutCache
parseAlways(lines, presetName, lc) == ParseLines(lines)

\* parseCubeLUT of the content script, lines 489-522, with lutCache = lc
parseCubeLUT(lines, presetName, lc) ==
    IF lc[presetName] # NoLut THEN lc[presetName]
    ELSE ParseLines(lines)

\* the first pass of the page's parser, lines 237-258: it stops at the first
\* line of three tokens that starts with a numeral (start; 1 when there is
\* none; lines count from 1) and keeps the size of the last directive before
FirstPass(lines) ==
    LET found == { i \in 1 .. Len(lines) :
                     /\ IsOther(lines[i]) /\ Len(lines[i].tokens) = 3
                     /\ Number(lines[i].tokens[1]) # NaN }
        start == IF found = {} THEN 1 ELSE CHOOSE i \in found : \A k \in found : i <= k
        seen  == IF found = {} THEN Len(lines) ELSE start - 1
        directives == SelectSeq(SubSeq(lines, 1, seen), IsDirective)
    IN  [size  |-> IF directives = << >> THEN 0
                   ELSE SizeByBlank(directives[Len(directives)]),
         start |-> start]

\* the second pass, lines 261-272
SecondPass(lines, start) ==
    LET rows == SelectSeq(SubSeq(lines, start, Len(lines)),
                          LAMBDA l : ~Skipped(l) /\ Len(l.tokens) = 3)
    IN  [k \in 1 .. Len(rows) |-> Values(rows[k])]

\* Math.round(Math.pow(n, 1/3))
RoundCbrt(n) == CHOOSE r \in 0 .. n : (2 * r - 1) ^ 3 <= 8 * n /\ 8 * n < (2 * r + 1) ^ 3

Abs(x) == IF x < 0 THEN 0 - x ELSE x

\* lines 279-281: the first of the sizes 17, 33, 65 whose cube is within 20 of
\* the row count, or the size at hand
CommonSize(count, size) ==
    IF Abs(17 ^ 3 - count) < 20 THEN 17
    ELSE IF Abs(33 ^ 3 - count) < 20 THEN 33
    ELSE IF Abs(65 ^ 3 - count) < 20 THEN 65
    ELSE size

\* lines 276-321: the size is inferred, or the row count is checked against it
\* and repaired
Validate(size, data) ==
    IF size = 0
    THEN LET r  == RoundCbrt(Len(data))
             sz == IF r ^ 3 # Len(data) THEN CommonSize(Len(data), r) ELSE r
         IN  IF sz = 0 THEN Thrown("Error") ELSE Table(sz, data)
    ELSE IF size = NaN
    THEN Thrown("Error")     \* the comparisons with NaN fail, line 320
    ELSE IF Len(data) = size ^ 3 THEN Table(size, data)
    ELSE IF Abs(size ^ 3 - Len(data)) <= 20
    THEN IF Len(data) < size ^ 3
         THEN IF data = << >>
              THEN Thrown("TypeError")   \* [...lastEntry] of undefined, line 309
              ELSE Table(size, [k \in 1 .. size ^ 3 |->
                                   IF k <= Len(data) THEN data[k] ELSE data[Len(data)]])
         ELSE Table(size, SubSeq(data, 1, size ^ 3))
    ELSE Thrown("Error")

\* parseCubeLUT of lights-out-test.html, lines 229-325
parseCubeLUTPage(lines) ==
    LET first == FirstPass(lines)
    IN  Validate(first.size, SecondPass(lines, first.start))

VARIABLES
    page,           \* the candidates in the host document
    dom,            \* the surface of every candidate
    cache,          \* processedUrlCache
    jobs,           \* the invocations of processImage/processBackgroundImage in flight
    staleTimeouts,  \* pending processing timeouts of invocations that have ended
    clearTimers,    \* pending delayed removals of the in-flight marker (50 ms)
    runs,           \* the processAllMedia invocations in progress
    observers,      \* the MutationObservers of observeDOM and their debounce timers
    activeObserver, \* the observer the script holds a reference to (0: null)
    pcInit,         \* position of initializeProcessor
    stored,         \* chrome.storage.sync
    lastAppliedSettings,
    processingTask, \* the timer throttleProcessing refers to (0: null)
    throttled,      \* the pending timers of throttleProcessing with their arguments
    messages,       \* control messages received so far
    hostWrites,     \* writes of the host page's script so far
    lutFiles,       \* the text of the LUT asset of every preset
    lutCache,       \* lutCache: the parsed table of every preset
    lut,            \* the last call of a parser: the text and what was returned
    load,           \* the calls of loadImageCrossOrigin: image, timer and promise of each
    overlay,        \* one overlay of robustShadowReplace and its supervision
    entries,        \* cacheManager.entries: the time stamp of every tracked key
    now,            \* Date.now()
    pixel,          \* the last call of applyCubeLUT: the pixel and what was read
    config,         \* CONFIG.VIEWPORT_EXPANSION and the full-page scans that change it
    hist            \* what has happened, for the properties only

vars == <<page, dom, cache, jobs, staleTimeouts, clearTimers, runs, observers,
          activeObserver, pcInit, stored, lastAppliedSettings, processingTask,
          throttled, messages, hostWrites, lutFiles, lutCache, lut, load, overlay,
          entries, now, pixel, config, hist>>

\* the state of the helpers that the scheduling actions do not touch
helperVars == <<load, overlay, entries, now, pixel, config>>

\* the calls of loadImageCrossOrigin that the model follows
MaxLoads == 2

Calls == 1 .. MaxLoads

\* loadImageCrossOrigin has not been called
NoLoad == [src |-> "none", img |-> "none", corsTimeout |-> "none", proxy |-> 0, waiting |-> 0,
           nonCors |-> 0, promise |-> "none"]

\* robustShadowReplace has not been called
NoOverlay == [made |-> FALSE, wrapper |-> FALSE, original |-> TRUE, hidden |-> FALSE,
              records |-> FALSE, interval |-> "none", ticks |-> 0, cleanup |-> "none",
              healed |-> FALSE, reverted |-> FALSE]

\* applyCubeLUT has not been called
NoPixel == [called |-> FALSE, r |-> 0, g |-> 0, b |-> 0, a |-> 0, size |-> 1,
            x |-> 0, y |-> 0, z |-> 0, idx |-> 0, alpha |-> 0]

\* the full-page scans that the model follows
MaxSweeps == 2

Sweeps == 1 .. MaxSweeps

\* the unprocessed candidates that a full-page scan finds, at most
MaxUnprocessed == 2

\* line 1543: the value performFullPageScan puts in place of the configured one
FULL_SWEEP == 100000

\* CONFIG as the script defines it (line 222), no full-page scan started and
\* no scan of findMediaElements made; read: the values of
\* CONFIG.VIEWPORT_EXPANSION that findMediaElements has read (lines 356-361)
NoSweep == [value |-> VIEWPORT_EXPANSION,
            sweep |-> [k \in Sweeps |->
                          [pc |-> "timer", originalViewportExpansion |-> 0, left |-> 0]],
            read  |-> {}]

\* the helpers before their first call; cacheManager.entries = new Map()
InitHelpers ==
    /\ load = [c \in Calls |-> NoLoad]
    /\ overlay = NoOverlay
    /\ entries = << >>
    /\ now = 0
    /\ pixel = NoPixel
    /\ config = NoSweep

JobsOf(e) == { j \in jobs : j.el = e }

FreeSlot(e) == CHOOSE k \in 1 .. MaxJobs : \A j \in JobsOf(e) : j.slot # k

RunIds == 1 .. MaxRuns

FreeRunIn(rs) == CHOOSE r \in RunIds : \A x \in rs : x.id # r

FreeRun == FreeRunIn(runs)


ObserverIds == 1 .. (MaxMessages + 1)

FreeObserver == CHOOSE o \in ObserverIds : \A x \in observers : x.id # o

(***************************************************************************)
(* Change notifications (observeDOM, lines 1281-1337).                     *)
(***************************************************************************)
\* quickCheckMutation, lines 1294-1298, evaluated when the observer's callback
\* runs: an attribute record for src (img) or style (background) of a candidate
\* that does not carry data-film-grade-processed
RelevantMutation(d1, d2) ==
    \E e \in page : d1[e].src # d2[e].src /\ ~d2[e].processed

\* handleMutationsOptimized, lines 1302-1325, for every connected observer
Mark(obs, relevant) ==
    { IF o.connected /\ o.s.enabled /\ o.s.preset # "none" /\ relevant
      THEN [o EXCEPT !.debounce = TRUE] ELSE o : o \in obs }

\* the records of a step of the pipeline from surfaces d1 to d2
Notified(obs, d1, d2) == Mark(obs, RelevantMutation(d1, d2))

\* observeDOM(settings): a new connected observer
observeDOM(obs, s) ==
    obs \cup {[id |-> CHOOSE o \in ObserverIds : \A x \in obs : x.id # o,
               s |-> s, connected |-> TRUE, debounce |-> FALSE]}

\* observer.disconnect() on the observer the script refers to; a pending debounce
\* timer of that observer stays pending
Disconnected(obs, id) ==
    { IF o.id = id THEN [o EXCEPT !.connected = FALSE] ELSE o : o \in obs }

\* observers that are disconnected and have no timer pending are garbage
Live(obs) == { o \in obs : o.connected \/ o.debounce }

(***************************************************************************)
(* Starting invocations.                                                   *)
(***************************************************************************)
NewJob(e, s, force, rid) ==
    [el |-> e, slot |-> FreeSlot(e), run |-> rid,
     preset |-> s.preset, grain |-> s.grain, vig |-> s.vig, force |-> force,
     osrc |-> OriginalSrcOf(e, dom[e]), phase |-> "load",
     tmo |-> IF Kind(e) = "img" THEN "pending" ELSE "none"]

\* processElement (lines 1172-1184) for every candidate of B, in order, each up
\* to its first await; rid is the run that awaits the invocations (0: none)
Dispatch(B, s, force, rid) ==
    LET starting == { e \in B : StartsJob(e, dom[e], s, force, cache) }
        clearing == { e \in B : EntrySchedulesClear(e, dom[e], s, force, cache) }
        leaving  == { e \in B : EntryLeavesTimeout(e, dom[e], s, force, cache) }
    IN  /\ \A e \in starting : Cardinality(JobsOf(e)) < MaxJobs
        /\ \A e \in clearing : clearTimers[e] < MaxTimers
        /\ \A e \in leaving : staleTimeouts[e] < MaxTimers
        /\ dom' = [e \in Elems |-> IF e \in B
                                   THEN EntrySurface(e, dom[e], s, force, cache)
                                   ELSE dom[e]]
        /\ jobs' = jobs \cup { NewJob(e, s, force, rid) : e \in starting }
        /\ clearTimers' = [e \in Elems |-> clearTimers[e] + (IF e \in clearing THEN 1 ELSE 0)]
        /\ staleTimeouts' = [e \in Elems |-> staleTimeouts[e] + (IF e \in leaving THEN 1 ELSE 0)]


(***************************************************************************)
(* History, read by the properties only.                                   *)
(*   ev       whether the last step handled a settings change to           *)
(*            pipelineEnabled = false or reverted candidates, and the      *)
(*            surfaces before it                                           *)
(*   pre      the reference and markers before the last direct commit      *)
(*   passes   <<candidate, fingerprint>> of the LUT passes of non-forced   *)
(*            invocations since the candidate's last revert                *)
(*   twice    candidates with a second such pass for the same fingerprint  *)
(*   late     candidates committed by a job whose timeout had expired      *)
(*   early    a large candidate's job started while a regular candidate of *)
(*            the same run was not yet dispatched                          *)
(*   on       pipelineEnabled of the settings handled last                 *)
(*   refused  the host page wrote a new value to a locked reference        *)
(***************************************************************************)
Markers(el) == [src |-> el.src, orig |-> el.orig, processed |-> el.processed,
                locked |-> el.locked]

\* any step but the ones below
Step == [kind |-> "step", before |-> << >>, reverted |-> {}]

\* the step handled a settings change to pipelineEnabled = false ("disable") or
\* reverted committed candidates otherwise ("revert"); R: the candidates
\* revertElement was called on
Handled(R, disable) ==
    IF disable THEN [kind |-> "disable", before |-> dom, reverted |-> R]
    ELSE IF \E e \in R : dom[e].processed
    THEN [kind |-> "revert", before |-> dom, reverted |-> R]
    ELSE Step

\* a revert forgets the candidate's LUT passes
Forget(ps, R) == { p \in ps : p[1] \notin R }

(***************************************************************************)
(* The rest of an invocation: load, LUT, commit (lines 689-838, 899-991).  *)
(***************************************************************************)
\* what a candidate shows is its own source: no asset produced by the
\* pipeline in the reference and no overlay in front of it
Untransformed(el) == ~IsDataImage(el.src) /\ el.wrapper = "none"

\* the candidates that a failed job has left showing a produced asset
Failed(d2, e) ==
    IF hist.rec /\ ~Untransformed(d2[e]) THEN hist.kept \cup {e} ELSE hist.kept

\* the candidates whose latest job was rejected, with the settings of that job,
\* when a job of candidate e ends otherwise
Ended(rs, e) == { r \in rs : r.el # e }

\* ... and when job j is rejected (catch, lines 818-830)
Rejected(rs, j) ==
    IF hist.rec
    THEN Ended(rs, j.el) \cup {[el |-> j.el, preset |-> j.preset, grain |-> j.grain, vig |-> j.vig]}
    ELSE rs

\* the candidates of which a job has failed, when e's job fails
FailedWith(e) == IF hist.rec THEN hist.failed \cup {e} ELSE hist.failed

\* a finally block that would not set the 50 ms timer
EndJobUnscheduled(j) ==
    /\ j.tmo = "pending" => staleTimeouts[j.el] < MaxTimers
    /\ jobs' = jobs \ {j}
    /\ clearTimers' = clearTimers
    /\ staleTimeouts' = [staleTimeouts EXCEPT ![j.el] = @ + (IF j.tmo = "pending" THEN 1 ELSE 0)]

\* the finally block: the job ends, the marker is removed 50 ms later; the
\* processing timeout is never cleared and stays pending if it has not fired
EndJob(j) ==
    /\ clearTimers[j.el] < MaxTimers
    /\ j.tmo = "pending" => staleTimeouts[j.el] < MaxTimers
    /\ jobs' = jobs \ {j}
    /\ clearTimers' = [clearTimers EXCEPT ![j.el] = @ + 1]
    /\ staleTimeouts' = [staleTimeouts EXCEPT ![j.el] = @ + (IF j.tmo = "pending" THEN 1 ELSE 0)]

\* the settings and the source of a job, of which line 677 builds the cache key
Fingerprint(j) == [osrc |-> j.osrc, preset |-> j.preset, grain |-> j.grain, vig |-> j.vig]

\* lines 732-817 and 927-977: applied says whether the LUT pass took place;
\* h is the record of what has happened so far
FinishFrom(j, applied, h) ==
    LET e    == j.el
        el   == dom[e]
        done == applied \/ j.grain \/ j.vig
        url  == DataUrl(j.osrc, IF applied THEN j.preset ELSE "none", j.grain, j.vig)
        key  == CacheKey(j.osrc, j.preset, j.grain, j.vig)
        direct == done /\ ~(Kind(e) = "img" /\ UsesShadow(e))
        el2  == IF ~done THEN NotProcessed(e, el)
                ELSE IF Kind(e) # "img" THEN CommitBackground(el, j.osrc, url)
                ELSE IF UsesShadow(e) THEN robustShadowReplace(el)
                ELSE CommitDirect(el, j.osrc, url)
        d2   == [dom EXCEPT ![e] = el2]
        counted == applied /\ ~j.force
    IN  /\ EndJob(j)
        /\ dom' = d2
        /\ cache' = IF direct THEN cache \cup {key} ELSE cache
        /\ observers' = Notified(observers, dom, d2)
        /\ hist' = [h EXCEPT
                      !.ev = Step,
                      !.pre = IF direct /\ Kind(e) = "img"
                              THEN [@ EXCEPT ![e] = Markers(el)] ELSE @,
                      !.passes = IF counted THEN @ \cup {<<e, key>>} ELSE @,
                      !.twice = IF counted /\ <<e, key>> \in h.passes
                                THEN @ \cup {e} ELSE @,
                      !.late = IF done /\ j.tmo = "fired" THEN @ \cup {e} ELSE @,
                      !.failed = IF ~applied /\ j.preset # "none" THEN FailedWith(e) ELSE @,
                      !.done = IF h.rec /\ done THEN @ \cup {Fingerprint(j)} ELSE @,
                      !.graded = IF h.rec /\ applied THEN @ \cup {e} ELSE @,
                      !.retry = Ended(@, e)]
        /\ UNCHANGED <<helperVars, lutFiles, lut, page, runs, activeObserver, pcInit, stored,
                       lastAppliedSettings, processingTask, throttled, messages, hostWrites>>

Finish(j, applied) == FinishFrom(j, applied, hist)

\* a rejection that neither processImage nor processElement catches ends the
\* run that awaits the job
processElementRethrows(j) == { r \in runs : r.id # j.run }

\* the runs after an invocation has thrown: processImage catches it itself
\* (lines 818-830) and processElement catches what is left (lines 1172-1184),
\* so the Promise.all of the batch resolves
processElement(j) == runs

\* loadImageCrossOrigin settles.  "ok": the image loaded and its pixels were
\* read; "blocked": zero size, no 2d context or a tainted canvas (lines 707-730,
\* 906-925); "fail": the promise was rejected (catch, lines 818-830, 978-985)
LoadDone(j, outcome) ==
    /\ j \in jobs /\ j.phase = "load"
    /\ \/ /\ outcome = "ok"
          /\ IF j.preset # "none"
             THEN /\ jobs' = (jobs \ {j}) \cup {[j EXCEPT !.phase = "lut"]}
                  /\ hist' = [hist EXCEPT !.ev = Step]
                  /\ UNCHANGED <<helperVars, lutFiles, lutCache, lut, page, dom, cache, staleTimeouts, clearTimers, runs,
                                 observers, activeObserver, pcInit, stored,
                                 lastAppliedSettings, processingTask, throttled, messages,
                                 hostWrites>>
             ELSE Finish(j, FALSE) /\ UNCHANGED lutCache
       \/ /\ outcome = "blocked"
          /\ EndJob(j)
          /\ dom' = [dom EXCEPT ![j.el].processing = FALSE]
          /\ hist' = [hist EXCEPT !.ev = Step, !.kept = Failed(dom, j.el),
                                  !.failed = FailedWith(j.el), !.retry = Ended(@, j.el)]
          /\ UNCHANGED <<helperVars, lutFiles, lutCache, lut, page, cache, runs, observers, activeObserver, pcInit, stored,
                         lastAppliedSettings, processingTask, throttled, messages, hostWrites>>
       \/ /\ outcome = "fail"
          /\ EndJob(j)
          /\ LET d2 == [dom EXCEPT ![j.el] = CatchRevert(j.el, @)]
             IN  /\ dom' = d2
                 /\ observers' = Notified(observers, dom, d2)
                 /\ hist' = [hist EXCEPT !.ev = Step, !.kept = Failed(d2, j.el),
                                         !.failed = FailedWith(j.el), !.retry = Rejected(@, j)]
          /\ runs' = processElement(j)
          /\ UNCHANGED <<helperVars, lutFiles, lutCache, lut, page, cache, activeObserver, pcInit, stored,
                         lastAppliedSettings, processingTask, throttled, messages, hostWrites>>

\* the test of line 744 on a parsed table
NeverDegenerate(table) == FALSE

Degenerate(table) == table.size = 0 \/ Len(table.data) = 0

\* applyCubeLUT (lines 525-559) returns for the table: with a size that is no
\* number every index is NaN and the read of lut.data[idx][0] throws
Applies(table) == table.size # NaN

\* lines 734-753: the fetch of the LUT asset has settled (fetched: the response
\* is ok), the text is parsed and the table, unless degenerate, is applied
LutDone(j, fetched) ==
    /\ j \in jobs /\ j.phase = "lut"
    /\ LET table == parseCubeLUT(Lines(lutFiles[j.preset]), j.preset, lutCache)
       IN  /\ lutCache' = IF fetched THEN [lutCache EXCEPT ![j.preset] = table]
                           ELSE lutCache
           /\ FinishFrom(j, fetched /\ ~Degenerate(table) /\ Applies(table),
                         [hist EXCEPT !.luts = IF hist.rec /\ fetched /\ ~Degenerate(table)
                                               THEN @ \cup {table} ELSE @,
                                      !.fetched = @ \/ (hist.rec /\ fetched)])

(***************************************************************************)
(* Timers of an invocation.                                                *)
(***************************************************************************)
\* lines 646-651, while the job is still in flight
TimeoutFires(j) ==
    /\ j \in jobs /\ j.tmo = "pending"
    /\ jobs' = (jobs \ {j}) \cup {[j EXCEPT !.tmo = "fired"]}
    /\ dom' = [dom EXCEPT ![j.el].processing = FALSE]
    /\ hist' = [hist EXCEPT !.ev = Step, !.failed = FailedWith(j.el)]
    /\ UNCHANGED <<helperVars, lutFiles, lutCache, lut, page, cache, staleTimeouts, clearTimers, runs, observers,
                   activeObserver, pcInit, stored, lastAppliedSettings, processingTask, throttled,
                   messages, hostWrites>>

\* lines 646-651, after the invocation that set the timer has ended
StaleTimeoutFires(e) ==
    /\ staleTimeouts[e] > 0
    /\ staleTimeouts' = [staleTimeouts EXCEPT ![e] = @ - 1]
    /\ dom' = [dom EXCEPT ![e].processing = FALSE]
    /\ hist' = [hist EXCEPT !.ev = Step]
    /\ UNCHANGED <<helperVars, lutFiles, lutCache, lut, page, cache, jobs, clearTimers, runs, observers, activeObserver,
                   pcInit, stored, lastAppliedSettings, processingTask, throttled, messages,
                   hostWrites>>

\* lines 834-837 and 988-990
ClearTimerFires(e) ==
    /\ clearTimers[e] > 0
    /\ clearTimers' = [clearTimers EXCEPT ![e] = @ - 1]
    /\ dom' = [dom EXCEPT ![e].processing = FALSE]
    /\ hist' = [hist EXCEPT !.ev = Step]
    /\ UNCHANGED <<helperVars, lutFiles, lutCache, lut, page, cache, jobs, staleTimeouts, runs, observers, activeObserver,
                   pcInit, stored, lastAppliedSettings, processingTask, throttled, messages,
                   hostWrites>>


(***************************************************************************)
(* processAllMedia (lines 1146-1242) and its callers' continuations.       *)
(***************************************************************************)
\* what the caller does when the promise of processAllMedia resolves:
\* initializeProcessor installs the observer (lines 1369-1373), the throttle
\* forgets its timer (line 1074), the observer's callback does nothing
Returned(caller, s, obs, act) ==
    /\ observers' = Live(IF caller = "init" THEN observeDOM(Disconnected(obs, act), s) ELSE obs)
    /\ activeObserver' = IF caller = "init"
                         THEN CHOOSE o \in ObserverIds : \A x \in Disconnected(obs, act) : x.id # o
                         ELSE act
    /\ processingTask' = IF caller = "throttle" THEN 0 ELSE processingTask
    /\ pcInit' = IF caller = "init" THEN "done" ELSE pcInit

NotReturned(caller, obs, act) ==
    /\ observers' = Live(obs)
    /\ activeObserver' = act
    /\ processingTask' = processingTask
    /\ pcInit' = IF caller = "init" THEN "running" ELSE pcInit

\* a large candidate of B starts its job while a regular candidate of the run
\* is not yet dispatched
EarlyLarge(B, s, force, waiting) ==
    \E e \in B : /\ IsLarge(e) /\ StartsJob(e, dom[e], s, force, cache)
                 /\ \E f \in waiting : ~IsLarge(f)

\* a run that returns as soon as the pipeline is disabled, whatever the preset
BypassedWhenDisabled(s) == ~s.enabled

\* the test of line 1153 (and of lines 1350, 1426 and 1536): nothing is
\* scanned or dispatched for a disabled pipeline or the preset 'none'
Bypassed(s) == ~s.enabled \/ s.preset = "none"

\* lines 1199-1205: the first BATCH_SIZE visible candidates, and the others
FirstBatch(q) == SubSeq(q, 1, Min(BATCH_SIZE, Len(q)))

AfterBatch(q) == SubSeq(q, Len(FirstBatch(q)) + 1, Len(q))

\* change: the call handles a settings message (applyFilter)
processAllMediaFrom(s, force, caller, change, obs, act, rs) ==
    LET found    == findMediaElements(page, dom)
        all      == Joined(found)
        visible  == SelectSeq(all, InViewport)
        deferred == SelectSeq(all, LAMBDA e : ~InViewport(e))
        batch    == FirstBatch(visible)
        rest     == AfterBatch(visible)
        on2      == IF change THEN s.enabled ELSE hist.on
    IN  IF Bypassed(s)
        THEN \* lines 1153-1162
             LET R  == IF s.enabled THEN {}
                       ELSE { e \in page : dom[e].processed \/ dom[e].shadow }
                 d2 == [e \in Elems |-> IF e \in R THEN revertElement(e, dom[e]) ELSE dom[e]]
             IN  /\ dom' = d2
                 /\ Returned(caller, s, Notified(obs, dom, d2), act)
                 /\ hist' = [hist EXCEPT
                               !.ev = Handled(R, change /\ ~s.enabled /\ hist.on),
                               !.passes = Forget(@, R),
                               !.on = on2]
                 /\ runs' = rs
                 /\ UNCHANGED <<cache, jobs, staleTimeouts, clearTimers>>
        ELSE IF all = << >>
        THEN /\ Returned(caller, s, obs, act)
             /\ hist' = [hist EXCEPT !.ev = Step, !.on = on2]
             /\ runs' = rs
             /\ UNCHANGED <<dom, cache, jobs, staleTimeouts, clearTimers>>
        ELSE /\ Cardinality(rs) < MaxRuns
             /\ IF visible = << >>
                THEN \* no visible batch: the deferred candidates and the final timer
                     /\ runs' = rs \cup {[id |-> FreeRunIn(rs), kind |-> "pam", caller |-> caller,
                                            s |-> s, force |-> force, rest |-> << >>,
                                            def |-> deferred, di |-> 0, pc |-> "tail",
                                            final |-> TRUE]}
                     /\ Returned(caller, s, obs, act)
                     /\ hist' = [hist EXCEPT !.ev = Step, !.on = on2]
                     /\ UNCHANGED <<dom, cache, jobs, staleTimeouts, clearTimers>>
                ELSE \* lines 1199-1205: the first visible batch
                     /\ Dispatch(ToSet(batch), s, force, FreeRunIn(rs))
                     /\ runs' = rs \cup {[id |-> FreeRunIn(rs), kind |-> "pam", caller |-> caller,
                                            s |-> s, force |-> force, rest |-> rest,
                                            def |-> deferred, di |-> 0, pc |-> "batch",
                                            final |-> FALSE]}
                     /\ NotReturned(caller, obs, act)
                     /\ hist' = [hist EXCEPT
                                   !.ev = Step, !.on = on2,
                                   !.early = @ \/ EarlyLarge(ToSet(batch), s, force,
                                                             ToSet(rest) \cup ToSet(deferred))]
                     /\ UNCHANGED cache

\* processAllMedia, lines 1146-1242, called while the runs in progress are `runs'
processAllMedia(s, force, caller, change, obs, act) ==
    processAllMediaFrom(s, force, caller, change, obs, act, runs)

\* lines 1200-1241 after a batch: Promise.all has resolved and BATCH_DELAY has
\* passed; the next batch, or the deferred candidates and the final timer
RunContinue(r) ==
    /\ r \in runs /\ r.kind = "pam" /\ r.pc = "batch"
    /\ \A j \in jobs : j.run # r.id
    /\ IF r.rest # << >>
       THEN LET batch == SubSeq(r.rest, 1, Min(BATCH_SIZE, Len(r.rest)))
                rest  == SubSeq(r.rest, Len(batch) + 1, Len(r.rest))
            IN  /\ Dispatch(ToSet(batch), r.s, r.force, r.id)
                /\ runs' = (runs \ {r}) \cup {[r EXCEPT !.rest = rest]}
                /\ NotReturned("none", observers, activeObserver)
                /\ hist' = [hist EXCEPT
                              !.ev = Step,
                              !.early = @ \/ EarlyLarge(ToSet(batch), r.s, r.force,
                                                        ToSet(rest) \cup ToSet(r.def))]
                /\ UNCHANGED cache
       ELSE /\ runs' = (runs \ {r}) \cup {[r EXCEPT !.pc = "tail", !.final = TRUE]}
            /\ Returned(r.caller, r.s, observers, activeObserver)
            /\ hist' = [hist EXCEPT !.ev = Step]
            /\ UNCHANGED <<dom, cache, jobs, staleTimeouts, clearTimers>>
    /\ UNCHANGED <<helperVars, lutFiles, lutCache, lut, page, stored, lastAppliedSettings, throttled, messages, hostWrites>>

\* processDeferredBatch, lines 1209-1225: an idle callback starts the next k
\* deferred candidates without awaiting them; it yields after a batch
RunDeferred(r, k) ==
    /\ r \in runs /\ r.kind = "pam" /\ r.pc = "tail" /\ r.def # << >>
    /\ k \in 1 .. Min(Len(r.def), BATCH_SIZE - (r.di % BATCH_SIZE))
    /\ LET B    == ToSet(SubSeq(r.def, 1, k))
           rest == SubSeq(r.def, k + 1, Len(r.def))
           r2   == [r EXCEPT !.def = rest, !.di = @ + k]
       IN  /\ Dispatch(B, r.s, r.force, 0)
           /\ runs' = (runs \ {r}) \cup (IF rest = << >> /\ ~r.final THEN {} ELSE {r2})
           /\ hist' = [hist EXCEPT !.ev = Step,
                                   !.early = @ \/ EarlyLarge(B, r.s, r.force, ToSet(rest))]
    /\ UNCHANGED <<helperVars, lutFiles, lutCache, lut, page, cache, observers, activeObserver, pcInit, stored,
                   lastAppliedSettings, processingTask, throttled, messages, hostWrites>>

\* the final timer of lines 1238-1241 calls finishProcessing, lines 1601-1631
\* sweep: the step follows the timers that finishProcessing sets for
\* performFullPageScan (lines 1616-1622: 1500 ms, then 1000 ms)
RunFinalThen(r, sweep) ==
    /\ r \in runs /\ r.kind = "pam" /\ r.pc = "tail" /\ r.final
    /\ lastAppliedSettings' = r.s
    /\ LET left == (runs \ {r}) \cup (IF r.def = << >> THEN {} ELSE {[r EXCEPT !.final = FALSE]})
       IN  IF sweep
           THEN /\ Cardinality(left) < MaxRuns
                /\ runs' = left \cup {[id |-> FreeRunIn(left), kind |-> "sweep",
                                        caller |-> "sweep", s |-> r.s, force |-> TRUE,
                                        rest |-> << >>, def |-> << >>, di |-> 0,
                                        pc |-> "timer", final |-> FALSE]}
           ELSE runs' = left
    /\ hist' = [hist EXCEPT !.ev = Step]
    /\ UNCHANGED <<helperVars, lutFiles, lutCache, lut, page, dom, cache, jobs, staleTimeouts, clearTimers, observers,
                   activeObserver, pcInit, stored, processingTask, throttled, messages,
                   hostWrites>>

RunFinal(r) == RunFinalThen(r, FALSE)


(***************************************************************************)
(* initializeProcessor, lines 1343-1375, from the resolution of            *)
(* getFilterSettings on.                                                   *)
(***************************************************************************)
\* findAllMediaElements, lines 420-470: the lists of findMediaElements (or of
\* its last result, which is the same for a document whose candidates stay)
findAllMediaElements(pg, d) == Joined(findMediaElements(pg, d))

InitializeProcessor ==
    /\ pcInit = "start"
    /\ lastAppliedSettings' = stored
    /\ IF stored.enabled /\ stored.preset # "none"
       THEN processAllMedia(stored, TRUE, "init", TRUE, observers, activeObserver)
       ELSE LET R  == ToSet(findAllMediaElements(page, dom))
                d2 == [e \in Elems |-> IF e \in R THEN revertElement(e, dom[e]) ELSE dom[e]]
            IN  /\ dom' = d2
                /\ Returned("init", stored, Notified(observers, dom, d2), activeObserver)
                /\ hist' = [hist EXCEPT !.ev = Handled(R, FALSE), !.on = stored.enabled,
                                        !.passes = Forget(@, R)]
                /\ UNCHANGED <<cache, jobs, staleTimeouts, clearTimers, runs>>
    /\ UNCHANGED <<helperVars, lutFiles, lutCache, lut, page, stored, throttled, messages, hostWrites>>

(***************************************************************************)
(* The message listener, lines 1496-1527.  The popup and the context menu  *)
(* save the settings before they send the message.                         *)
(***************************************************************************)
\* the pending timers that clearTimeout(processingTask) cancels, line 1069: the
\* promise of such a call is never resolved, so its .then never runs
Superseded == { t \in throttled : t.id = processingTask }

\* applyFilter: throttleProcessing, lines 1065-1080, up to the timer; max is
\* the number of control messages the page receives
ApplyFilterWithin(s, max) ==
    /\ messages < max
    /\ messages' = messages + 1
    /\ stored' = s
    /\ throttled' = (throttled \ Superseded)
                    \cup {[id |-> messages + 1, s |-> s,
                           force |-> \/ s.preset # lastAppliedSettings.preset
                                     \/ s.grain # lastAppliedSettings.grain
                                     \/ s.vig # lastAppliedSettings.vig
                                     \/ s.enabled # lastAppliedSettings.enabled]}
    /\ processingTask' = messages + 1
    /\ hist' = [hist EXCEPT !.ev = Step,
                            !.orphaned = @ \cup { t.id : t \in Superseded }]
    /\ UNCHANGED <<helperVars, lutFiles, lutCache, lut, page, dom, cache, jobs, staleTimeouts,
                   clearTimers, runs, observers, activeObserver, pcInit,
                   lastAppliedSettings, hostWrites>>

ApplyFilter(s) == ApplyFilterWithin(s, MaxMessages)

\* the timer of throttleProcessing fires, lines 1072-1077
ThrottleFires(t) ==
    /\ t \in throttled
    /\ throttled' = throttled \ {t}
    /\ processAllMedia(t.s, t.force, "throttle", TRUE, observers, activeObserver)
    /\ UNCHANGED <<helperVars, lutFiles, lutCache, lut, page, stored, lastAppliedSettings, messages, hostWrites>>

\* refresh: refreshHandler, lines 1416-1419, awaits the stored settings
Refresh(s) ==
    /\ messages < MaxMessages
    /\ Cardinality(runs) < MaxRuns
    /\ messages' = messages + 1
    /\ stored' = s
    /\ runs' = runs \cup {[id |-> FreeRun, kind |-> "refresh", caller |-> "refresh",
                           s |-> s, force |-> TRUE, rest |-> << >>, def |-> << >>,
                           di |-> 0, pc |-> "read", final |-> FALSE]}
    /\ hist' = [hist EXCEPT !.ev = Step]
    /\ UNCHANGED <<helperVars, lutFiles, lutCache, lut, page, dom, cache, jobs, staleTimeouts, clearTimers, observers,
                   activeObserver, pcInit, lastAppliedSettings, processingTask, throttled,
                   hostWrites>>

\* lines 1471-1487: the candidates of list one after the other, each awaited;
\* an invocation that returns at once (line 641) lets the loop go on
RefreshLoop(r, s, list, obs, act) ==
    LET starters == { i \in 1 .. Len(list) : StartsJob(list[i], dom[list[i]], s, TRUE, cache) }
    IN  IF starters = {}
        THEN /\ runs' = runs \ {r}
             /\ observers' = Live(observeDOM(obs, s))
             /\ activeObserver' = CHOOSE o \in ObserverIds : \A x \in obs : x.id # o
             /\ UNCHANGED <<dom, jobs, staleTimeouts, clearTimers>>
        ELSE LET i == CHOOSE k \in starters : \A m \in starters : k <= m
             IN  /\ Dispatch({list[i]}, s, TRUE, r.id)
                 /\ runs' = (runs \ {r}) \cup
                            {[r EXCEPT !.pc = "loop", !.s = s,
                                       !.rest = SubSeq(list, i + 1, Len(list))]}
                 /\ observers' = Live(obs)
                 /\ activeObserver' = act

\* lines 1419-1470: the settings arrive, the observer is disconnected; found
\* is what findAllMediaElements answers
RefreshReadFrom(r, found) ==
    /\ r \in runs /\ r.kind = "refresh" /\ r.pc = "read"
    /\ RefreshLoop(r, stored,
                   IF stored.enabled /\ stored.preset # "none"
                   THEN found ELSE << >>,
                   Disconnected(observers, activeObserver), 0)
    /\ hist' = [hist EXCEPT !.ev = Handled({}, ~stored.enabled /\ hist.on),
                            !.on = stored.enabled]
    /\ UNCHANGED <<helperVars, lutFiles, lutCache, lut, page, cache, pcInit, stored, lastAppliedSettings, processingTask,
                   throttled, messages, hostWrites>>

RefreshRead(r) == RefreshReadFrom(r, findAllMediaElements(page, dom))

\* the awaited invocation has ended
RefreshContinue(r) ==
    /\ r \in runs /\ r.kind = "refresh" /\ r.pc = "loop"
    /\ \A j \in jobs : j.run # r.id
    /\ RefreshLoop(r, r.s, r.rest, observers, activeObserver)
    /\ hist' = [hist EXCEPT !.ev = Step]
    /\ UNCHANGED <<helperVars, lutFiles, lutCache, lut, page, cache, pcInit, stored, lastAppliedSettings, processingTask,
                   throttled, messages, hostWrites>>

(***************************************************************************)
(* The full-page scan (performFullPageScan, lines 1530-1598) and the check *)
(* for new content that it schedules (checkForNewContent, lines            *)
(* 1248-1278).                                                             *)
(***************************************************************************)
\* lines 1549-1559: the candidates of list that do not show a produced asset
unprocessedElements(list) ==
    SelectSeq(list, LAMBDA e : /\ Kind(e) # "img" => dom[e].src # None
                               /\ ~(IsDataImage(dom[e].src) /\ dom[e].orig # None))

\* lines 1562-1588: the candidates of list one after the other, each forced
\* and awaited; after the last one the check for new content is scheduled
SweepLoop(r, list) ==
    LET starters == { i \in 1 .. Len(list) : StartsJob(list[i], dom[list[i]], r.s, TRUE, cache) }
    IN  IF starters = {}
        THEN /\ runs' = (runs \ {r}) \cup {[r EXCEPT !.kind = "check", !.caller = "check",
                                                      !.force = FALSE, !.pc = "timer",
                                                      !.rest = << >>]}
             /\ UNCHANGED <<dom, jobs, staleTimeouts, clearTimers>>
        ELSE LET i == CHOOSE k \in starters : \A m \in starters : k <= m
             IN  /\ Dispatch({list[i]}, r.s, TRUE, r.id)
                 /\ runs' = (runs \ {r}) \cup
                            {[r EXCEPT !.pc = "loop", !.rest = SubSeq(list, i + 1, Len(list))]}

\* the second timer of finishProcessing fires: lines 1536-1561 and 1589-1591.
\* findAllMediaElements answers with the last result of findMediaElements
\* (lines 425-429), whatever CONFIG.VIEWPORT_EXPANSION is at the time
FullPageScan(r) ==
    /\ r \in runs /\ r.kind = "sweep" /\ r.pc = "timer"
    /\ IF Bypassed(r.s) \/ unprocessedElements(findAllMediaElements(page, dom)) = << >>
       THEN /\ runs' = runs \ {r}
            /\ UNCHANGED <<dom, jobs, staleTimeouts, clearTimers>>
       ELSE SweepLoop(r, unprocessedElements(findAllMediaElements(page, dom)))
    /\ hist' = [hist EXCEPT !.ev = Step]
    /\ UNCHANGED <<helperVars, lutFiles, lutCache, lut, page, cache, observers, activeObserver, pcInit,
                   stored, lastAppliedSettings, processingTask, throttled, messages,
                   hostWrites>>

\* the awaited invocation of the scan has ended
FullPageScanContinue(r) ==
    /\ r \in runs /\ r.kind = "sweep" /\ r.pc = "loop"
    /\ \A j \in jobs : j.run # r.id
    /\ SweepLoop(r, r.rest)
    /\ hist' = [hist EXCEPT !.ev = Step]
    /\ UNCHANGED <<helperVars, lutFiles, lutCache, lut, page, cache, observers, activeObserver, pcInit,
                   stored, lastAppliedSettings, processingTask, throttled, messages,
                   hostWrites>>

\* checkForNewContent, lines 1248-1278, with the settings the scan had: it
\* starts an unforced run when findMediaElements finds any candidate (a check
\* that finds none sets its timer again, which changes nothing here)
checkForNewContent(r) ==
    /\ r \in runs /\ r.kind = "check" /\ r.pc = "timer"
    /\ IF Bypassed(r.s)
       THEN /\ runs' = runs \ {r}
            /\ hist' = [hist EXCEPT !.ev = Step]
            /\ UNCHANGED <<dom, cache, jobs, staleTimeouts, clearTimers, observers,
                           activeObserver, processingTask, pcInit>>
       ELSE /\ \/ findMediaElements(page, dom).regular # << >>
               \/ findMediaElements(page, dom).large # << >>
            /\ processAllMediaFrom(r.s, FALSE, "check", FALSE, observers, activeObserver,
                                   runs \ {r})
    /\ UNCHANGED <<helperVars, lutFiles, lutCache, lut, page, stored, lastAppliedSettings, throttled,
                   messages, hostWrites>>

(***************************************************************************)
(* The host page and the observer's timer.                                 *)
(***************************************************************************)
\* the values the host writes: the locator it gave the candidate, or another
HostValues(e) == { ElemTable[e].url, <<"h1">> }

\* a script of the host page assigns img.src or calls setAttribute('src', ...)
HostWriteSrc(e, v) ==
    /\ hostWrites < MaxHostWrites
    /\ e \in page
    /\ hostWrites' = hostWrites + 1
    /\ dom' = [dom EXCEPT ![e] = WriteSrc(@, v)]
    \* a write that reaches the attribute queues a record, whatever the value
    /\ observers' = Mark(observers, GuardAdmits(dom[e]) /\ ~dom[e].processed)
    /\ hist' = [hist EXCEPT !.ev = Step,
                            !.refused = @ \/ (dom[e].locked /\ dom[e].src # v)]
    /\ UNCHANGED <<helperVars, lutFiles, lutCache, lut, page, cache, jobs, staleTimeouts, clearTimers, runs, activeObserver,
                   pcInit, stored, lastAppliedSettings, processingTask, throttled, messages>>

\* the debounce timer of an observer fires, lines 1315-1323
MutationRun(o) ==
    /\ o \in observers /\ o.debounce
    /\ processAllMedia(o.s, FALSE, "observer", FALSE,
                       (observers \ {o}) \cup {[o EXCEPT !.debounce = FALSE]},
                       activeObserver)
    /\ UNCHANGED <<helperVars, lutFiles, lutCache, lut, page, stored, lastAppliedSettings, throttled, messages, hostWrites>>

(***************************************************************************)
(* The system.                                                             *)
(***************************************************************************)
\* the documents of this model: a small image that is committed directly, or a
\* large image inside a <picture>, which is overlaid.  Both are inside the
\* viewport, so that no candidate is deferred to idle time (RunDeferred is a
\* step of the document of SpecBatch below)
Pages == { {1}, {2} }

NoHistory ==
    [ev |-> Step,
     pre |-> [e \in Elems |-> None], passes |-> {}, twice |-> {}, late |-> {},
     early |-> FALSE, on |-> FALSE, refused |-> FALSE,
     rec |-> FALSE, kept |-> {}, failed |-> {}, done |-> {}, luts |-> {},
     graded |-> {}, fetched |-> FALSE, orphaned |-> {}, retry |-> {}]

\* rec: the jobs' failures and commits are recorded in hist
InitDocument(pg, rec) ==
    /\ page = pg
    /\ dom = [e \in Elems |-> NewSurface(e)]
    /\ cache = {}
    /\ jobs = {}
    /\ staleTimeouts = [e \in Elems |-> 0]
    /\ clearTimers = [e \in Elems |-> 0]
    /\ runs = {}
    /\ observers = {}
    /\ activeObserver = 0
    /\ pcInit = "start"
    /\ stored \in SettingsChoices
    /\ lastAppliedSettings = Snap("", FALSE, FALSE, TRUE)
    /\ processingTask = 0
    /\ throttled = {}
    /\ messages = 0
    /\ hostWrites = 0
    /\ hist = [NoHistory EXCEPT !.rec = rec]
    /\ InitHelpers

\* the presets that have a LUT asset
LutPresets == Presets \ {"none"}

\* a LUT asset as packaged with the extension: a directive and its rows
PackagedText == [n |-> 1, rows |-> 1, wide |-> FALSE, notes |-> "none"]

\* no parser has been called yet
NoCall == [variant |-> "none", text |-> PackagedText, out |-> NoLut]

\* texts are the assets of the presets; lutCache = {} (line 487)
InitLuts(texts) ==
    /\ lutFiles \in [LutPresets -> texts]
    /\ lutCache = [p \in LutPresets |-> NoLut]
    /\ lut = NoCall

InitRecording(pg, rec) == InitDocument(pg, rec) /\ InitLuts({PackagedText})

InitWith(pg) == InitRecording(pg, FALSE)

Init == \E pg \in Pages : InitWith(pg)

Next ==
    \/ InitializeProcessor
    \/ \E s \in SettingsChoices : ApplyFilter(s)
    \/ \E t \in throttled : ThrottleFires(t)
    \/ \E s \in SettingsChoices : Refresh(s)
    \/ \E r \in runs : RefreshRead(r)
    \/ \E r \in runs : RefreshContinue(r)
    \/ \E r \in runs : RunContinue(r)
    \/ \E r \in runs : RunFinal(r)
    \/ \E j \in jobs : \E outcome \in {"ok", "blocked", "fail"} : LoadDone(j, outcome)
    \/ \E j \in jobs : \E ok \in BOOLEAN : LutDone(j, ok)
    \/ \E j \in jobs : TimeoutFires(j)
    \/ \E e \in page : StaleTimeoutFires(e)
    \/ \E e \in page : ClearTimerFires(e)
    \/ \E e \in page : \E v \in HostValues(e) : HostWriteSrc(e, v)
    \/ \E o \in observers : MutationRun(o)

Spec == Init /\ [][Next]_vars


(***************************************************************************)
(* A document with five visible candidates (one of them large) and one     *)
(* regular candidate below the viewport, on which the initial run works    *)
(* without failures, timeouts or further triggers.                         *)
(***************************************************************************)
InitBatch ==
    /\ InitWith({1, 2, 3, 4, 5, 6})
    /\ stored = Snap("kodak", FALSE, FALSE, TRUE)

NextBatch ==
    \/ InitializeProcessor
    \/ \E r \in runs : RunContinue(r)
    \/ \E r \in runs : \E k \in 1 .. BATCH_SIZE : RunDeferred(r, k)
    \/ \E r \in runs : RunFinal(r)
    \/ \E j \in jobs : LoadDone(j, "ok")
    \/ \E j \in jobs : LutDone(j, TRUE)

SpecBatch == InitBatch /\ [][NextBatch]_vars

(***************************************************************************)
(* A long-lived document: the script has committed MAX_CACHE_SIZE          *)
(* candidates that have left the document since, and the host has just     *)
(* inserted a new image, of which the observer has been notified.          *)
(***************************************************************************)
PastKey(i) == CacheKey(<<"p" \o ToString(i)>>, "kodak", FALSE, FALSE)

InitCache ==
    /\ page = {1}
    /\ dom = [e \in Elems |-> NewSurface(e)]
    /\ cache = { PastKey(i) : i \in 1 .. MAX_CACHE_SIZE }
    /\ jobs = {}
    /\ staleTimeouts = [e \in Elems |-> 0]
    /\ clearTimers = [e \in Elems |-> 0]
    /\ runs = {}
    /\ observers = {[id |-> 1, s |-> Snap("kodak", FALSE, FALSE, TRUE),
                     connected |-> TRUE, debounce |-> TRUE]}
    /\ activeObserver = 1
    /\ pcInit = "done"
    /\ stored = Snap("kodak", FALSE, FALSE, TRUE)
    /\ lastAppliedSettings = Snap("kodak", FALSE, FALSE, TRUE)
    /\ processingTask = 0
    /\ throttled = {}
    /\ messages = 0
    /\ hostWrites = 0
    /\ hist = [NoHistory EXCEPT !.on = TRUE]
    /\ InitLuts({PackagedText})
    /\ InitHelpers

NextCache ==
    \/ \E o \in observers : MutationRun(o)
    \/ \E r \in runs : RunContinue(r)
    \/ \E r \in runs : RunFinal(r)
    \/ \E j \in jobs : \E outcome \in {"ok", "blocked", "fail"} : LoadDone(j, outcome)
    \/ \E j \in jobs : \E ok \in BOOLEAN : LutDone(j, ok)
    \/ \E j \in jobs : TimeoutFires(j)
    \/ \E e \in page : StaleTimeoutFires(e)
    \/ \E e \in page : ClearTimerFires(e)
    \/ \E e \in page : \E v \in HostValues(e) : HostWriteSrc(e, v)

SpecCache == InitCache /\ [][NextCache]_vars

(***************************************************************************)
(* Properties.                                                             *)
(***************************************************************************)
\* C1: at every moment, every candidate has at most one job that has passed
\* its in-flight check and has not finished.
C1_AtMostOneJob ==
    \A e \in page : Cardinality(JobsOf(e)) <= 1

\* C2: at every moment, at most MAX_CONCURRENT candidates have a job that has
\* started and not finished.
C2_ConcurrencyBound ==
    Cardinality({ e \in page : JobsOf(e) # {} }) <= MAX_CONCURRENT

\* C3: no candidate gets a second LUT pass from invocations with force = false
\* for one fingerprint (source locator, preset, grain, vignette).
C3_SecondPassSkipped ==
    hist.twice = {}

\* C4: right after the pipeline has handled a settings change from enabled to
\* disabled, every candidate that was committed directly shows its recorded
\* original, and every candidate that was overlaid has no overlay node and is
\* visible.
C4_DisableReverts ==
    hist.ev.kind = "disable" =>
        \A e \in page :
            /\ (hist.ev.before[e].processed /\ hist.ev.before[e].orig # None)
                   => dom[e].src = hist.ev.before[e].orig
            /\ hist.ev.before[e].wrapper = "attached"
                   => (dom[e].wrapper = "none" /\ ~dom[e].hidden)

\* C5: right after the pipeline has handled a settings change to disabled, the
\* result cache is empty.
C5_DisableClearsCache ==
    hist.ev.kind = "disable" => cache = {}

\* C6: the result cache never holds more than MAX_CACHE_SIZE fingerprints
\* once a commit's insertion is done.
C6_CacheBounded ==
    Cardinality(cache) <= MAX_CACHE_SIZE

\* C9: within one processAllMedia run, no job of a large candidate starts
\* while a regular candidate of that run is not yet dispatched.
C9_RegularBeforeLarge ==
    ~hist.early

\* C10: no job whose processing timeout has expired commits its result.
C10_LateResultDiscarded ==
    hist.late = {}


\* the candidate was reverted in the last step, having been committed directly
RevertedCommitted(e) ==
    /\ e \in hist.ev.reverted
    /\ Kind(e) = "img"
    /\ hist.ev.before[e].processed
    /\ hist.ev.before[e].locked
    /\ hist.ev.before[e].orig # None

Uncommitted(m) == m.orig = None /\ ~m.processed /\ ~m.locked

C8_RoundTrip ==
    \A e \in page :
        RevertedCommitted(e) =>
            /\ dom[e].src = hist.ev.before[e].orig
            /\ Uncommitted(dom[e])
            /\ Markers(dom[e]) = hist.pre[e]

\* C8 amended: the revert of a directly committed candidate restores the
\* recorded original and clears the three markers; the candidate then has the
\* reference and the markers it had before its commit if it was uncommitted
\* then and showed the source that the commit recorded.
C8_RevertRestores ==
    \A e \in page :
        RevertedCommitted(e) =>
            /\ dom[e].src = hist.ev.before[e].orig
            /\ Uncommitted(dom[e])
            /\ (Uncommitted(hist.pre[e]) /\ hist.pre[e].src = hist.ev.before[e].orig)
                   => Markers(dom[e]) = hist.pre[e]

\* a directly committed candidate has been reverted to what it was before
C8_Witness ==
    \E e \in page :
        /\ RevertedCommitted(e)
        /\ IsDataImage(hist.ev.before[e].src)
        /\ Markers(dom[e]) = hist.pre[e]

(***************************************************************************)
(* A document with one candidate on which the initial run and the run of   *)
(* one applyFilter message work, with jobs that may fail; the failures and *)
(* the commits of the jobs are recorded.                                   *)
(***************************************************************************)
InitRetry ==
    \E pg \in Pages : InitRecording(pg, TRUE)

NextRetry ==
    \/ InitializeProcessor
    \/ \E s \in SettingsChoices : ApplyFilter(s)
    \/ \E t \in throttled : ThrottleFires(t)
    \/ \E r \in runs : RunContinue(r)
    \/ \E r \in runs : RunFinal(r)
    \/ \E j \in jobs : \E outcome \in {"ok", "blocked", "fail"} : LoadDone(j, outcome)
    \/ \E j \in jobs : \E ok \in BOOLEAN : LutDone(j, ok)
    \/ \E e \in Elems : StaleTimeoutFires(e)
    \/ \E e \in Elems : ClearTimerFires(e)

SpecRetry == InitRetry /\ [][NextRetry]_vars

(***************************************************************************)
(* C11: a candidate whose job has failed (the load was rejected, or the    *)
(* image had no size, no 2d context or unreadable pixels) shows its own,   *)
(* untransformed source when the job ends: no produced asset in its        *)
(* reference, no overlay in front of it.                                   *)
(***************************************************************************)
C11_FailureShowsOriginal ==
    hist.kept = {}

(***************************************************************************)
(* A document with seven visible candidates (two batches) and one          *)
(* candidate below the viewport, on which the initial run works while      *)
(* jobs fail: rejected loads, unreadable pixels, LUT errors and timeouts.  *)
(***************************************************************************)
\* the candidates whose jobs may fail: one of the first batch and the one of
\* the second batch
Faulty == {1, 2}

InitFail ==
    /\ InitRecording(1 .. 8, TRUE)
    /\ stored = Snap("kodak", FALSE, FALSE, TRUE)

NextFail ==
    \/ InitializeProcessor
    \/ \E r \in runs : RunContinue(r)
    \/ \E r \in runs : \E k \in 1 .. BATCH_SIZE : RunDeferred(r, k)
    \/ \E r \in runs : RunFinal(r)
    \/ \E j \in jobs : LoadDone(j, "ok")
    \/ \E j \in jobs : LutDone(j, TRUE)
    \/ \E j \in jobs : \E outcome \in {"blocked", "fail"} :
           j.el \in Faulty /\ LoadDone(j, outcome)
    \/ \E j \in jobs : j.el \in Faulty /\ LutDone(j, FALSE)
    \/ \E j \in jobs : j.el \in Faulty /\ TimeoutFires(j)
    \/ \E e \in Elems : ClearTimerFires(e)

SpecFail == InitFail /\ [][NextFail]_vars

\* the initial run has dispatched everything and every job has ended
RunOver == pcInit # "start" /\ runs = {} /\ jobs = {}

\* the surface of candidate e after its commit in a run without failures
CommittedAlone(e) ==
    IF UsesShadow(e) THEN robustShadowReplace(NewSurface(e))
    ELSE CommitDirect(NewSurface(e), ElemTable[e].url,
                      DataUrl(ElemTable[e].url, stored.preset, stored.grain, stored.vig))

(***************************************************************************)
(* C12: when the run is over, every candidate whose own job did not fail   *)
(* (no load error, LUT error, blocked read or timeout) is committed as in  *)
(* a run without failures, whatever happened to the jobs of the other      *)
(* candidates of its batch and of earlier batches.                         *)
(***************************************************************************)
C12_FailureIsolated ==
    RunOver => \A e \in page \ hist.failed :
                   [dom[e] EXCEPT !.processing = FALSE] = CommittedAlone(e)

\* a job of the first batch failed, and the rest of its batch, the second
\* batch and the deferred candidate are committed
C12_Witness ==
    /\ RunOver
    /\ hist.failed = {1}
    /\ \A e \in page \ {1} : [dom[e] EXCEPT !.processing = FALSE] = CommittedAlone(e)

\* the identity settings: preset 'none', no grain, no vignette, pipeline on
IdentitySettings == Snap("none", FALSE, FALSE, TRUE)

\* a step that carries out a scheduling run under the identity settings
IdentityRun ==
    \/ stored = IdentitySettings /\ InitializeProcessor
    \/ \E t \in throttled : t.s = IdentitySettings /\ ThrottleFires(t)
    \/ \E o \in observers : o.s = IdentitySettings /\ MutationRun(o)
    \/ \E r \in runs : stored = IdentitySettings /\ RefreshRead(r)

\* the step gives candidate e no new asset: its surface stays as it is, or it
\* is put back to its original (initializeProcessor reverts the candidates when
\* it finds the identity settings, lines 1359-1364)
NothingCommitted(e) ==
    \/ dom'[e] = dom[e]
    \/ /\ ~dom'[e].processed /\ ~dom'[e].locked /\ ~dom'[e].shadow
       /\ dom'[e].src \in {dom[e].src, dom[e].orig}
       /\ dom'[e].wrapper = "attached" => dom[e].wrapper = "attached"

(***************************************************************************)
(* C13: a run with preset 'none', grain off and vignette off gives no      *)
(* candidate a new asset (its reference stays, or goes back to the         *)
(* original it had), starts no job (so no LUT is applied and nothing is    *)
(* committed) and writes no cache entry; no job ever carries the identity  *)
(* settings.                                                               *)
(***************************************************************************)
C13_IdentityRunChangesNothing ==
    [][ /\ IdentityRun => /\ \A e \in Elems : NothingCommitted(e)
                          /\ cache' = cache /\ jobs' = jobs
        /\ \A j \in jobs' : j.preset # "none" ]_vars

\* an applyFilter message with the identity settings has been handled on a
\* document whose candidate is committed, and the candidate still is
C13_Witness ==
    /\ stored = IdentitySettings /\ messages = 1
    /\ throttled = {} /\ runs = {} /\ jobs = {}
    /\ \A o \in observers : o.s # IdentitySettings
    /\ \E e \in page : dom[e].processed /\ IsDataImage(dom[e].src)

\* the cache key of a fingerprint, line 677
KeyOf(f) == CacheKey(f.osrc, f.preset, f.grain, f.vig)

\* two successful jobs for one source and preset that differ in grain only
GrainPair(f, g) ==
    /\ f \in hist.done /\ g \in hist.done
    /\ f.grain /\ g = [f EXCEPT !.grain = FALSE]

(***************************************************************************)
(* C14: when two jobs for the same source and preset that differ only in   *)
(* grainEnabled have both succeeded (each committed its result), the       *)
(* result cache holds the fingerprints of both, and they are distinct.     *)
(***************************************************************************)
C14_BothFingerprintsCached ==
    \A f, g \in hist.done :
        GrainPair(f, g) => /\ KeyOf(f) # KeyOf(g)
                           /\ KeyOf(f) \in cache /\ KeyOf(g) \in cache

(***************************************************************************)
(* The parsers on their own: the asset of a preset is any text of Texts,   *)
(* and each parser is called on it.                                        *)
(***************************************************************************)
documentVars == <<page, dom, cache, jobs, staleTimeouts, clearTimers, runs, observers,
                  activeObserver, pcInit, stored, lastAppliedSettings, processingTask,
                  throttled, messages, hostWrites, hist>>

\* the content script parses the asset of preset p
ParseContent(p) ==
    LET out == parseCubeLUT(Lines(lutFiles[p]), p, lutCache)
    IN  /\ lut' = [variant |-> "content", text |-> lutFiles[p], out |-> out]
        /\ lutCache' = [lutCache EXCEPT ![p] = out]
        /\ UNCHANGED <<helperVars, lutFiles, documentVars>>

\* the page lights-out-test.html parses the same text
ParsePage(p) ==
    /\ lut' = [variant |-> "page", text |-> lutFiles[p],
               out |-> parseCubeLUTPage(Lines(lutFiles[p]))]
    /\ UNCHANGED <<helperVars, lutFiles, lutCache, documentVars>>

InitParse ==
    /\ InitDocument({}, FALSE)
    /\ stored = Snap("kodak", FALSE, FALSE, TRUE)
    /\ InitLuts(Texts)

NextParse ==
    \/ \E p \in LutPresets : ParseContent(p)
    \/ \E p \in LutPresets : ParsePage(p)

SpecParse == InitParse /\ [][NextParse]_vars

\* the colour rows 1 .. k of a text, in file order
Rows(k) == [i \in 1 .. k |-> <<i, i, i>>]

\* a parser has been called on a text that declares a size
Called == lut.variant # "none" /\ lut.text.n > 0

(***************************************************************************)
(* C15: a parser called on a text that declares size N and holds exactly   *)
(* N^3 colour rows, with comment and blank lines between them, returns a   *)
(* table of size N whose entries are the N^3 rows in file order.           *)
(***************************************************************************)
C15_ParseExact ==
    (Called /\ lut.text.rows = lut.text.n ^ 3)
        => lut.out = Table(lut.text.n, Rows(lut.text.n ^ 3))

\* the rows that the repair of a text with k rows yields for size n: the first
\* n^3 rows, the last row repeated where rows are missing
Repaired(n, k) == [i \in 1 .. n ^ 3 |-> IF i <= k THEN <<i, i, i>> ELSE <<k, k, k>>]

(***************************************************************************)
(* C16: a parser called on a text that declares size N and holds k > 0     *)
(* colour rows with d = |k - N^3| > 0 returns, if d <= 20, a table of size *)
(* N with exactly N^3 entries (the rows of the text, the last one repeated *)
(* for the missing ones, the surplus ones dropped), and returns no table   *)
(* but throws if d > 20.                                                   *)
(***************************************************************************)
C16_ParseRepair ==
    (Called /\ lut.text.rows > 0 /\ lut.text.rows # lut.text.n ^ 3)
        => IF Abs(lut.text.rows - lut.text.n ^ 3) <= 20
           THEN lut.out = Table(lut.text.n, Repaired(lut.text.n, lut.text.rows))
           ELSE ~lut.out.ok

(***************************************************************************)
(* A document with two visible candidates and one below the viewport, on   *)
(* which the initial run works while the LUT asset of the preset may be    *)
(* missing (the fetch fails) or parse to a table without size or rows.     *)
(***************************************************************************)
\* the packaged text, a text without directive, one without rows, an empty one
LutTexts == { [n |-> a, rows |-> b, wide |-> FALSE, notes |-> "none"] : a, b \in 0 .. 1 }

InitLut ==
    /\ InitDocument({1, 3, 4}, TRUE)
    /\ stored \in {Snap("kodak", FALSE, FALSE, TRUE), Snap("kodak", TRUE, FALSE, TRUE)}
    /\ InitLuts(LutTexts)

NextLut ==
    \/ InitializeProcessor
    \/ \E r \in runs : RunContinue(r)
    \/ \E r \in runs : \E k \in 1 .. BATCH_SIZE : RunDeferred(r, k)
    \/ \E r \in runs : RunFinal(r)
    \/ \E j \in jobs : LoadDone(j, "ok")
    \/ \E j \in jobs : \E fetched \in BOOLEAN : LutDone(j, fetched)

SpecLut == InitLut /\ [][NextLut]_vars

\* a table that has no size or no rows
Unusable(table) == table.size = 0 \/ table.data = << >>

\* the asset of the stored preset parses to such a table
DegenerateAsset == Unusable(ParseLines(Lines(lutFiles[stored.preset])))

\* every candidate of the document has had a job that has ended
AllEnded == \A e \in page : clearTimers[e] > 0 /\ JobsOf(e) = {}

(***************************************************************************)
(* C17: applyCubeLUT is never called with a table of size 0 or without     *)
(* rows; while no fetch of the LUT asset has succeeded, or when the asset  *)
(* parses to such a table, no candidate gets the colour transform; and the *)
(* run goes on until every candidate has had its job (it is never stuck    *)
(* before, and when it is over every job has ended).                       *)
(***************************************************************************)
C17_DegenerateLutNeverApplied ==
    /\ \A table \in hist.luts : ~Unusable(table)
    /\ (~hist.fetched \/ DegenerateAsset) => hist.graded = {}
    /\ RunOver => AllEnded
    /\ ~RunOver => ENABLED NextLut

\* the run is over on a document whose LUT asset is degenerate: the table
\* was parsed and cached, every job has ended and nothing was transformed
C17_Witness ==
    /\ RunOver /\ AllEnded
    /\ hist.fetched /\ Unusable(lutCache[stored.preset])
    /\ lutCache[stored.preset] # NoLut
    /\ hist.graded = {}

(***************************************************************************)
(* A document with one candidate that receives several applyFilter         *)
(* messages, also within the throttle delay of each other; no job fails.   *)
(***************************************************************************)
\* applyFilter messages the page receives
MaxBurst == 2

InitThrottle ==
    /\ InitRecording({1}, TRUE)
    /\ stored = Snap("kodak", FALSE, FALSE, TRUE)

NextThrottle ==
    \/ InitializeProcessor
    \/ \E s \in SettingsChoices : ApplyFilterWithin(s, MaxBurst)
    \/ \E t \in throttled : ThrottleFires(t)
    \/ \E r \in runs : RunContinue(r)
    \/ \E r \in runs : RunFinal(r)
    \/ \E j \in jobs : LoadDone(j, "ok")
    \/ \E j \in jobs : LutDone(j, TRUE)
    \/ \E e \in Elems : StaleTimeoutFires(e)
    \/ \E e \in Elems : ClearTimerFires(e)

SpecThrottle == InitThrottle /\ [][NextThrottle]_vars

(***************************************************************************)
(* C18: every applyFilter message keeps the continuation that sends its    *)
(* response: the timer whose callback resolves the promise of the call is  *)
(* never cancelled, so that the response {success} is sent once the run    *)
(* has returned, also for messages that arrive within the throttle delay   *)
(* of each other.                                                          *)
(***************************************************************************)
C18_EveryMessageAnswered ==
    hist.orphaned = {}

\* the fingerprint of the asset a directly committed candidate shows
ShownFingerprint(el) == Tail(el.src)

\* candidate e is committed and locked, idle, and shows an asset whose
\* fingerprint differs from the one that settings s yield for its original
CommittedOtherwise(e, s) ==
    /\ dom[e].processed /\ dom[e].locked /\ ~dom[e].processing /\ JobsOf(e) = {}
    /\ IsDataImage(dom[e].src) /\ dom[e].orig # None
    /\ ShownFingerprint(dom[e]) # CacheKey(dom[e].orig, s.preset, s.grain, s.vig)

\* the step starts a job for candidate e
Queued(e) == \E j \in jobs' : j.el = e /\ j \notin jobs

(***************************************************************************)
(* C19: a run that is not forced and whose settings (pipeline on, a preset *)
(* other than 'none') yield, for a committed and locked candidate, another *)
(* fingerprint than that of the asset the candidate shows, starts a job    *)
(* for that candidate; it skips the candidate only when the fingerprints   *)
(* are equal.  This includes the run of an applyFilter message that came   *)
(* before the previous run had recorded its settings as last applied.      *)
(***************************************************************************)
C19_ChangedFingerprintRequeued ==
    [][ \A t \in throttled :
            (ThrottleFires(t) /\ ~t.force /\ ~Bypassed(t.s))
                => \A e \in page : CommittedOtherwise(e, t.s) => Queued(e) ]_vars

(***************************************************************************)
(* A document with one small image into which the host page inserts a      *)
(* second one, under settings that the popup changes once.                 *)
(***************************************************************************)
\* the image the host page inserts
Inserted == 4

\* a script of the host page appends an <img> to the document: a childList
\* record with an IMG node, for which quickCheckMutation answers true (lines
\* 1287-1293)
HostInsert(e) ==
    /\ hostWrites < MaxHostWrites
    /\ e \notin page
    /\ hostWrites' = hostWrites + 1
    /\ page' = page \cup {e}
    /\ observers' = Mark(observers, TRUE)
    /\ hist' = [hist EXCEPT !.ev = Step]
    /\ UNCHANGED <<helperVars, lutFiles, lutCache, lut, dom, cache, jobs, staleTimeouts, clearTimers,
                   runs, activeObserver, pcInit, stored, lastAppliedSettings,
                   processingTask, throttled, messages>>

InitObserve ==
    /\ InitWith({1})
    /\ stored = Snap("kodak", FALSE, FALSE, TRUE)

NextObserve ==
    \/ InitializeProcessor
    \/ \E s \in SettingsChoices : ApplyFilter(s)
    \/ \E t \in throttled : ThrottleFires(t)
    \/ \E r \in runs : RunContinue(r)
    \/ \E r \in runs : RunFinal(r)
    \/ \E j \in jobs : LoadDone(j, "ok")
    \/ \E j \in jobs : LutDone(j, TRUE)
    \/ \E e \in Elems : StaleTimeoutFires(e)
    \/ \E e \in Elems : ClearTimerFires(e)
    \/ HostInsert(Inserted)
    \/ \E o \in observers : MutationRun(o)

SpecObserve == InitObserve /\ [][NextObserve]_vars

\* the settings of an applyFilter message have been applied: its throttled
\* run has started and ended
ChangeApplied ==
    /\ messages > 0
    /\ throttled = {}
    /\ \A r \in runs : r.caller # "throttle"

\* job j works with the preset, grain and vignette values of settings s
JobUses(j, s) == j.preset = s.preset /\ j.grain = s.grain /\ j.vig = s.vig

(***************************************************************************)
(* C20: once the settings of an applyFilter message have been applied,     *)
(* every job that a run triggered by a change notification dispatches      *)
(* works with the preset, grain and vignette values of those settings.     *)
(***************************************************************************)
C20_ObserverRunUsesCurrentSettings ==
    [][ \A o \in observers :
            (MutationRun(o) /\ ChangeApplied)
                => \A j \in jobs' \ jobs : JobUses(j, stored) ]_vars

\* candidate e is at rest: no job of it is in flight and the in-flight marker
\* of its last job has been removed (lines 834-837)
AtRest(e) == JobsOf(e) = {} /\ ~dom[e].processing /\ clearTimers[e] = 0

(***************************************************************************)
(* C21: a candidate whose latest job was rejected and that is at rest is   *)
(* taken up by an unforced scan with the settings of that job: the         *)
(* invocation is not turned away by the lock, the in-flight marker or the  *)
(* cache, whether the rejected job was the candidate's first or a forced   *)
(* reprocess of a committed candidate.                                     *)
(***************************************************************************)
C21_FailedCandidateRetried ==
    \A r \in hist.retry :
        AtRest(r.el) => StartsJob(r.el, dom[r.el], Snap(r.preset, r.grain, r.vig, TRUE),
                                  FALSE, cache)

(***************************************************************************)
(* A document with two small images in the viewport and one far below the  *)
(* expanded window of the regular scan; every run is followed by its       *)
(* full-page scan, and image loads may fail.                               *)
(***************************************************************************)
\* the image below the expanded window
Far == 9

InitSweep ==
    /\ InitRecording({1, 4, Far}, TRUE)
    /\ stored = Snap("kodak", FALSE, FALSE, TRUE)

NextSweep ==
    \/ InitializeProcessor
    \/ \E r \in runs : RunContinue(r)
    \/ \E r \in runs : RunFinalThen(r, TRUE)
    \/ \E j \in jobs : \E outcome \in {"ok", "fail"} : LoadDone(j, outcome)
    \/ \E j \in jobs : LutDone(j, TRUE)
    \/ \E e \in Elems : StaleTimeoutFires(e)
    \/ \E e \in Elems : ClearTimerFires(e)
    \/ \E r \in runs : FullPageScan(r)
    \/ \E r \in runs : FullPageScanContinue(r)
    \/ \E r \in runs : checkForNewContent(r)

SpecSweep == InitSweep /\ [][NextSweep]_vars

\* candidate e has the size of a candidate and lies outside the expanded
\* viewport window, so that the regular scan does not list it
Missed(e) ==
    /\ e \in page /\ Kind(e) = "img"
    /\ ElemTable[e].width >= MIN_IMAGE_SIZE /\ ElemTable[e].height >= MIN_IMAGE_SIZE
    /\ ~InExpandedViewport(e)

\* the step ends the full-page scan r
ScanEnds(r) ==
    /\ r.kind = "sweep"
    /\ FullPageScan(r) \/ FullPageScanContinue(r)
    /\ \A x \in runs' : x.kind = "sweep" => x.id # r.id

(***************************************************************************)
(* C22: when the full-page scan that follows a run ends, every candidate   *)
(* that the regular scan missed because it lies outside the expanded       *)
(* viewport window has been processed: it shows a produced asset, or its   *)
(* job failed.                                                             *)
(***************************************************************************)
C22_SweepProcessesMissed ==
    [][ \A r \in runs :
            (ScanEnds(r) /\ ~Bypassed(r.s))
                => \A e \in page : Missed(e) => (IsDataImage(dom'[e].src) \/ e \in hist'.failed) ]_vars

(***************************************************************************)
(* loadImageCrossOrigin, lines 95-187: the calls, the events of the image  *)
(* and of the timer of each, and the answers of the proxy.                 *)
(***************************************************************************)
\* the sources of a call: none, a remote one (http...) and one that is not
\* (a data URL or a resource of the extension)
Sources == {"", "http", "local"}

\* the state of every part of the script but the calls
scriptVars == <<documentVars, lutFiles, lutCache, lut, overlay, entries, now, pixel, config>>

\* resolve / reject of the call's promise: only the first one settles it
Settle(l, outcome) == IF l.promise = "pending" THEN [l EXCEPT !.promise = outcome] ELSE l

\* lines 126-140 and 152-167: the proxy is asked for a remote source,
\* otherwise a second image without crossOrigin is made
Fallback(l) ==
    IF l.src = "http"
    THEN [l EXCEPT !.proxy = @ + 1, !.waiting = @ + 1]
    ELSE [l EXCEPT !.nonCors = @ + 1]

\* clearTimeout(corsTimeout)
Cleared(l) == IF l.corsTimeout = "pending" THEN [l EXCEPT !.corsTimeout = "cleared"] ELSE l

\* call c up to its return, lines 96-100, 119-124 and 170-176
LoadStart(c, src) ==
    /\ load[c].src = "none"
    /\ load' = [load EXCEPT ![c] =
                   IF src = ""
                   THEN [NoLoad EXCEPT !.src = src, !.promise = "rejected"]
                   ELSE [NoLoad EXCEPT !.src = src, !.img = "pending",
                                       !.corsTimeout = "pending", !.promise = "pending"]]
    /\ UNCHANGED scriptVars

\* the timer of lines 124-141 fires; the image is left as it is
CorsTimeoutFires(c) ==
    /\ load[c].corsTimeout = "pending"
    /\ load' = [load EXCEPT ![c] = Fallback([@ EXCEPT !.corsTimeout = "fired"])]
    /\ UNCHANGED scriptVars

\* img.onload, lines 143-146
ImgLoaded(c) ==
    /\ load[c].img = "pending"
    /\ load' = [load EXCEPT ![c] = Settle(Cleared([@ EXCEPT !.img = "loaded"]), "resolved")]
    /\ UNCHANGED scriptVars

\* img.onerror, lines 148-168
ImgError(c) ==
    /\ load[c].img = "pending"
    /\ load' = [load EXCEPT ![c] = Fallback(Cleared([@ EXCEPT !.img = "error"]))]
    /\ UNCHANGED scriptVars

\* the callback of chrome.runtime.sendMessage, lines 106-122, and the events
\* of the image made from the answer
ProxyAnswers(c, ok) ==
    /\ load[c].waiting > 0
    /\ load' = [load EXCEPT ![c] = Settle([@ EXCEPT !.waiting = @ - 1],
                                          IF ok THEN "resolved" ELSE "rejected")]
    /\ UNCHANGED scriptVars

\* an image without crossOrigin reports, lines 130-138 and 157-166
NonCorsReports(c, ok) ==
    /\ load[c].nonCors > 0
    /\ load' = [load EXCEPT ![c] = Settle([@ EXCEPT !.nonCors = @ - 1],
                                          IF ok THEN "resolved" ELSE "rejected")]
    /\ UNCHANGED scriptVars

InitLoad ==
    /\ InitWith({})
    /\ stored = Snap("kodak", FALSE, FALSE, TRUE)

NextLoad ==
    \/ \E c \in Calls : \E src \in Sources : LoadStart(c, src)
    \/ \E c \in Calls : CorsTimeoutFires(c)
    \/ \E c \in Calls : ImgLoaded(c)
    \/ \E c \in Calls : ImgError(c)
    \/ \E c \in Calls : \E ok \in BOOLEAN : ProxyAnswers(c, ok)
    \/ \E c \in Calls : \E ok \in BOOLEAN : NonCorsReports(c, ok)

SpecLoad == InitLoad /\ [][NextLoad]_vars

(***************************************************************************)
(* C23: in one call of loadImageCrossOrigin the proxy is asked at most     *)
(* once, and only when the direct load has reported an error or its timer  *)
(* has fired.                                                              *)
(***************************************************************************)
C23_ProxyAskedOnce ==
    \A c \in Calls :
        /\ load[c].proxy <= 1
        /\ load[c].proxy > 0 => (load[c].img = "error" \/ load[c].corsTimeout = "fired")

\* the observers whose debounce timer is pending (lines 1314-1315)
Debouncing == { o \in observers : o.debounce }

(***************************************************************************)
(* C24: the notifications of a burst, each less than the debounce window   *)
(* after the one before, trigger one run: while a debounce timer is        *)
(* pending, a further notification replaces it, so that never two timers   *)
(* are pending, each of which would start a run of its own.                *)
(***************************************************************************)
C24_OneRunPerBurst ==
    Cardinality(Debouncing) <= 1

(***************************************************************************)
(* The supervision of an overlay, robustShadowReplace lines 1978-2024: the *)
(* MutationObserver on the original and its parent, the interval of 500 ms *)
(* and the timer of 30 s that clears it.  The host page removes the        *)
(* overlay node, makes the original visible or detaches the original.      *)
(*   wrapper, original   the node is connected                             *)
(*   hidden              the original has opacity 0                        *)
(*   records             mutation records wait for the observer's callback *)
(*   ticks               callbacks of the interval so far                  *)
(*   healed              the overlay has been put back at least once       *)
(***************************************************************************)
\* the interval's period and the delay of the timer that clears it
REAPPLY_MS == 500
CLEANUP_MS == 30000

\* the callbacks of the interval that are due before the clearing timer is
TicksInLifetime == CLEANUP_MS \div REAPPLY_MS

\* the ticks that the model follows
MaxTicks == 61

\* the state of every part of the script but the overlay
aroundOverlay == <<documentVars, lutFiles, lutCache, lut, load, entries, now, pixel, config>>

\* lines 1980-1984 and 2012-2015: the wrapper is inserted before the original,
\* which is hidden again
Reinserted(o) == [o EXCEPT !.wrapper = TRUE, !.hidden = TRUE, !.healed = TRUE]

\* an observer callback that does nothing
selfHealIdle(o) == [o EXCEPT !.records = FALSE]

\* selfHealImg, lines 1978-1992; the insertion it makes is a record of its own
selfHealImg(o) ==
    IF ~o.wrapper /\ o.original
    THEN [Reinserted(o) EXCEPT !.records = TRUE]
    ELSE [o EXCEPT !.hidden = TRUE, !.records = FALSE]

\* an interval that is never cleared
NotCleared(o) == o

\* clearInterval(reapplyInterval)
Cleared_interval(o) == [o EXCEPT !.interval = "off"]

\* robustShadowReplace, lines 1873-2024
ShadowReplace ==
    /\ ~overlay.made
    /\ overlay' = [NoOverlay EXCEPT !.made = TRUE, !.wrapper = TRUE, !.hidden = TRUE,
                                    !.interval = "on", !.cleanup = "pending"]
    /\ UNCHANGED aroundOverlay

\* the host page removes the overlay node from the parent
HostRemovesOverlay ==
    /\ overlay.made /\ overlay.wrapper
    /\ overlay' = [overlay EXCEPT !.wrapper = FALSE, !.records = TRUE]
    /\ UNCHANGED aroundOverlay

\* the host page writes the style of the original
HostShowsOriginal ==
    /\ overlay.made /\ overlay.original /\ overlay.hidden
    /\ overlay' = [overlay EXCEPT !.hidden = FALSE, !.records = TRUE]
    /\ UNCHANGED aroundOverlay

\* the host page removes the original from the tree
HostDetachesOriginal ==
    /\ overlay.made /\ overlay.original
    /\ overlay' = [overlay EXCEPT !.original = FALSE, !.records = TRUE]
    /\ UNCHANGED aroundOverlay

\* the observer's callback runs with the records queued
SelfHeal ==
    /\ overlay.made /\ overlay.records
    /\ overlay' = selfHealImg(overlay)
    /\ UNCHANGED aroundOverlay

\* a callback of the interval, lines 2011-2019; the clearing timer is due
\* before the callback that follows the last one of the lifetime
ReapplyTick ==
    /\ overlay.interval = "on"
    /\ overlay.ticks < TicksInLifetime \/ overlay.cleanup = "fired"
    /\ overlay.ticks < MaxTicks
    /\ LET o == [overlay EXCEPT !.ticks = @ + 1]
       IN  overlay' = IF ~o.wrapper /\ o.original THEN [Reinserted(o) EXCEPT !.records = TRUE]
                      ELSE IF ~o.original THEN Cleared_interval(o)
                      ELSE o
    /\ UNCHANGED aroundOverlay

\* the timer of lines 2021-2023
CleanupFires ==
    /\ overlay.cleanup = "pending"
    /\ overlay' = Cleared_interval([overlay EXCEPT !.cleanup = "fired"])
    /\ UNCHANGED aroundOverlay

InitOverlay ==
    /\ InitWith({})
    /\ stored = Snap("kodak", FALSE, FALSE, TRUE)

NextOverlay ==
    \/ ShadowReplace
    \/ HostRemovesOverlay
    \/ HostShowsOriginal
    \/ HostDetachesOriginal
    \/ SelfHeal
    \/ ReapplyTick
    \/ CleanupFires

SpecOverlay == InitOverlay /\ [][NextOverlay]_vars

\* the callback of a MutationObserver runs once records are queued
SpecOverlayLive == SpecOverlay /\ WF_vars(SelfHeal)

\* the overlay node is gone while the original is in the tree
OverlayRemoved == overlay.made /\ ~overlay.wrapper /\ overlay.original

\* the overlay is in front of the hidden original, unless the original has
\* left the tree
OverlayRestored == (overlay.wrapper /\ overlay.hidden) \/ ~overlay.original

(***************************************************************************)
(* C25: whenever the host has removed the overlay node and the original    *)
(* stays in the tree, the overlay is eventually inserted before the        *)
(* original again and the original is hidden again.                        *)
(***************************************************************************)
C25_OverlayReinstated == OverlayRemoved ~> OverlayRestored

\* after the interval has ended, the overlay was removed and put back
C25_Witness ==
    /\ overlay.healed /\ overlay.interval = "off" /\ overlay.cleanup = "fired"
    /\ overlay.wrapper /\ overlay.hidden /\ overlay.original /\ ~overlay.records

(***************************************************************************)
(* C26: the interval of an overlay ends: a callback that finds the         *)
(* original detached clears it, it has at most TicksInLifetime callbacks   *)
(* (30 s of 500 ms), and once cleared it has no further callback.          *)
(***************************************************************************)
C26_IntervalEnds ==
    [][ /\ (ReapplyTick /\ ~overlay.original) => overlay'.interval = "off"
        /\ overlay'.ticks <= TicksInLifetime
        /\ overlay.interval = "off" => (overlay'.interval = "off" /\ overlay'.ticks = overlay.ticks)
      ]_vars

\* the interval has had all callbacks of its lifetime and was cleared by the
\* timer while the original was in the tree
C26_Witness ==
    /\ overlay.ticks = TicksInLifetime /\ overlay.cleanup = "fired"
    /\ overlay.interval = "off" /\ overlay.original

(***************************************************************************)
(* cacheManager, lines 251-297: a Map from key to Date.now() next to the   *)
(* set processedUrlCache.  entries is the Map in its own order (a key that *)
(* is set again keeps its place and takes the new time), now is the        *)
(* clock.  processImage adds to processedUrlCache without the manager      *)
(* (lines 796 and 967).                                                    *)
(***************************************************************************)
CACHE_CLEAN_THRESHOLD == 250

\* the values of the clock that the model follows
MaxClock == 2

\* the keys added beyond those of the past
MaxNewKeys == 2

NewKey(i) == CacheKey(<<"n" \o ToString(i)>>, "kodak", FALSE, FALSE)

\* the keys that the operations of the model are called with
ManagerKeys == { NewKey(i) : i \in 1 .. MaxNewKeys } \cup { PastKey(1) }

\* the key that processImage adds on its own
DirectKey == CacheKey(<<"d">>, "kodak", FALSE, FALSE)

\* the state of every part of the script but the cache and its manager
aroundManager == <<page, dom, jobs, staleTimeouts, clearTimers, runs, observers,
                   activeObserver, pcInit, stored, lastAppliedSettings, processingTask,
                   throttled, messages, hostWrites, hist, lutFiles, lutCache, lut,
                   load, overlay, pixel, config>>

\* Map.prototype.set
MapSet(es, k, t) ==
    IF \E i \in DOMAIN es : es[i].key = k
    THEN [i \in DOMAIN es |-> IF es[i].key = k THEN [key |-> k, ts |-> t] ELSE es[i]]
    ELSE Append(es, [key |-> k, ts |-> t])

\* Map.prototype.delete
MapDelete(es, k) == SelectSeq(es, LAMBDA e : e.key # k)

KeysOf(es) == { es[i].key : i \in DOMAIN es }

\* the times recorded in the Map es
TimesOf(es) == { es[i].ts : i \in DOMAIN es }

Earliest(ts) == CHOOSE t \in ts : \A u \in ts : t <= u

Latest(ts) == CHOOSE t \in ts : \A u \in ts : t >= u

\* the first entry of es, in the order of the Map, that carries time t
FirstAt(es, t) == SelectSeq(es, LAMBDA e : e.ts = t)[1].key

\* the n entries with the latest times
RECURSIVE newestEntries(_, _)
newestEntries(es, n) ==
    IF n = 0 \/ es = << >> THEN {}
    ELSE LET k == FirstAt(es, Latest(TimesOf(es)))
         IN  {k} \cup newestEntries(MapDelete(es, k), n - 1)

\* lines 283-293: the first n entries of the array sorted by time, a stable
\* sort of the entries in the order of the Map
RECURSIVE oldestEntries(_, _)
oldestEntries(es, n) ==
    IF n = 0 \/ es = << >> THEN {}
    ELSE LET k == FirstAt(es, Earliest(TimesOf(es)))
         IN  {k} \cup oldestEntries(MapDelete(es, k), n - 1)

\* cleanup, lines 277-296: the pair of processedUrlCache and entries it leaves
cleanup(c, es) ==
    IF Cardinality(c) <= MAX_CACHE_SIZE
    THEN <<c, es>>
    ELSE LET gone == oldestEntries(es, Cardinality(c) - MAX_CACHE_SIZE)
         IN  <<c \ gone, SelectSeq(es, LAMBDA e : e.key \notin gone)>>

\* add, lines 256-264
ManagerAdd(k) ==
    LET c  == cache \cup {k}
        es == MapSet(entries, k, now)
        out == IF Cardinality(c) > CACHE_CLEAN_THRESHOLD THEN cleanup(c, es) ELSE <<c, es>>
    IN  /\ cache' = out[1]
        /\ entries' = out[2]
        /\ UNCHANGED <<now, aroundManager>>

\* has, lines 267-269
ManagerHas(k) ==
    /\ k \in cache \/ k \notin cache
    /\ UNCHANGED <<cache, entries, now, aroundManager>>

\* delete, lines 272-275
ManagerDelete(k) ==
    /\ k \in cache
    /\ cache' = cache \ {k}
    /\ entries' = MapDelete(entries, k)
    /\ UNCHANGED <<now, aroundManager>>

\* processImage, line 796: processedUrlCache.add(cacheKey)
DirectAdd ==
    /\ DirectKey \notin cache
    /\ cache' = cache \cup {DirectKey}
    /\ UNCHANGED <<entries, now, aroundManager>>

\* Date.now() has a later value
ClockAdvances ==
    /\ now < MaxClock
    /\ now' = now + 1
    /\ UNCHANGED <<cache, entries, aroundManager>>

\* the manager has added MAX_CACHE_SIZE - 1 keys in the past, half of them in
\* an earlier millisecond than the others
InitManager ==
    /\ page = {}
    /\ dom = [e \in Elems |-> NewSurface(e)]
    /\ cache = { PastKey(i) : i \in 1 .. MAX_CACHE_SIZE - 1 }
    /\ jobs = {}
    /\ staleTimeouts = [e \in Elems |-> 0]
    /\ clearTimers = [e \in Elems |-> 0]
    /\ runs = {}
    /\ observers = {}
    /\ activeObserver = 0
    /\ pcInit = "done"
    /\ stored = Snap("kodak", FALSE, FALSE, TRUE)
    /\ lastAppliedSettings = Snap("kodak", FALSE, FALSE, TRUE)
    /\ processingTask = 0
    /\ throttled = {}
    /\ messages = 0
    /\ hostWrites = 0
    /\ hist = NoHistory
    /\ InitLuts({PackagedText})
    /\ load = [c \in Calls |-> NoLoad]
    /\ overlay = NoOverlay
    /\ pixel = NoPixel
    /\ config = NoSweep
    /\ entries = [i \in 1 .. MAX_CACHE_SIZE - 1 |->
                     [key |-> PastKey(i), ts |-> IF 2 * i < MAX_CACHE_SIZE THEN 0 ELSE 1]]
    /\ now = 1

NextManager ==
    \/ \E k \in ManagerKeys : ManagerAdd(k)
    \/ \E k \in ManagerKeys : ManagerHas(k)
    \/ \E k \in ManagerKeys : ManagerDelete(k)
    \/ DirectAdd
    \/ ClockAdvances

SpecManager == InitManager /\ [][NextManager]_vars

\* the time recorded for key k in the Map es
TimeOf(es, k) == SelectSeq(es, LAMBDA e : e.key = k)[1].ts

\* between the Maps a and b no recorded key was lost whose time is later than
\* that of a key kept, and as many were lost as the set was over its limit
OldestLost(c, a, b) ==
    LET lost == KeysOf(a) \ KeysOf(b)
        over == IF Cardinality(c) > MAX_CACHE_SIZE THEN Cardinality(c) - MAX_CACHE_SIZE ELSE 0
    IN  /\ \A g \in lost : \A t \in TimesOf(b) : t >= TimeOf(a, g)
        /\ KeysOf(b) \subseteq KeysOf(a)
        /\ Cardinality(lost) = IF over < Len(a) THEN over ELSE Len(a)

InferredCall == lut.variant = "page" /\ lut.text.n = 0

(***************************************************************************)
(* C28: the page's parser, called on a text without size directive, throws *)
(* or returns a table whose number of entries is the cube of its size.     *)
(***************************************************************************)
C28_InferredTableIsCube ==
    InferredCall => (~lut.out.ok \/ Len(lut.out.data) = lut.out.size ^ 3)

(***************************************************************************)
(* parseCubeLUT of the content script, lines 486-522, called again and     *)
(* again for a preset, with a text that need not be the one of the call    *)
(* before.                                                                 *)
(***************************************************************************)
\* the most colour rows of a text given to a repeated call
MaxCachedRows == 8

CachedTexts == { t \in Texts : t.rows <= MaxCachedRows /\ t.notes = "none" /\ ~t.wide }

\* parseCubeLUT(text, presetName) with the text t
ParseText(p, t) ==
    LET out == parseCubeLUT(Lines(t), p, lutCache)
    IN  /\ lut' = [variant |-> "content", text |-> t, out |-> out]
        /\ lutCache' = [lutCache EXCEPT ![p] = out]
        /\ UNCHANGED <<helperVars, lutFiles, documentVars>>

InitCached ==
    /\ InitDocument({}, FALSE)
    /\ stored = Snap("kodak", FALSE, FALSE, TRUE)
    /\ InitLuts({PackagedText})

NextCached == \E p \in LutPresets : \E t \in CachedTexts : ParseText(p, t)

SpecCached == InitCached /\ [][NextCached]_vars

\* lutCache holds a table for preset p
Stored(p) == lutCache[p] # NoLut

(***************************************************************************)
(* C29: once lutCache holds a table for a preset, every later call of      *)
(* parseCubeLUT for that preset returns that table, whatever text it is    *)
(* given, and the table held for the preset never changes.                 *)
(***************************************************************************)
C29_FirstTableKept ==
    [][ \A p \in LutPresets :
            Stored(p) => /\ lutCache'[p] = lutCache[p]
                         /\ \A t \in CachedTexts :
                                ParseText(p, t) => lut'.out = lutCache[p] ]_vars

\* a later call with another text has returned the table of the first call
C29_Witness ==
    \E p \in LutPresets :
        /\ Stored(p) /\ lut.variant = "content" /\ lut.out = lutCache[p]
        /\ lut.out # ParseLines(Lines(lut.text))

(***************************************************************************)
(* applyCubeLUT, lines 524-558, for one pixel.  The numbers of the script  *)
(* are IEEE 754 doubles: data[i] / 255 and r * (size - 1) are each rounded *)
(* to 53 significant bits, to nearest, ties to even.  A significand is a   *)
(* sequence of bits, the least significant first.                          *)
(***************************************************************************)
\* the bits of a double's significand
Precision == 53

\* the channel values and table sizes that pixels and tables are drawn from
Channels == {0, 1, 127, 155, 254, 255}
LutSizes == {1, 2, 17, 33, 52}
Alphas == {0, 128, 255}

Max(a, b) == IF a > b THEN a ELSE b

\* the i-th bit after the point of the binary expansion of c / 255, 0 < c < 255,
\* by long division: the remainder after i - 1 bits is c * 2^(i-1) mod 255,
\* and 2^8 = 1 mod 255
Remainder(c, i) == (c * 2 ^ (i % 8)) % 255
Digit(c, i) == IF 2 * Remainder(c, i - 1) >= 255 THEN 1 ELSE 0

\* the place of the first bit 1 of the expansion
Lead(c) == CHOOSE i \in 1 .. 8 : Digit(c, i) = 1 /\ \A k \in 1 .. i - 1 : Digit(c, k) = 0

\* bits + carry
RECURSIVE AddSmall(_, _)
AddSmall(bits, carry) ==
    IF bits = << >>
    THEN IF carry = 0 THEN << >> ELSE <<carry % 2>> \o AddSmall(<< >>, carry \div 2)
    ELSE <<(Head(bits) + carry) % 2>> \o AddSmall(Tail(bits), (Head(bits) + carry) \div 2)

\* bits * m + carry, m > 0
RECURSIVE MulSmall(_, _, _)
MulSmall(bits, m, carry) ==
    IF bits = << >>
    THEN AddSmall(<< >>, carry)
    ELSE <<(Head(bits) * m + carry) % 2>>
             \o MulSmall(Tail(bits), m, (Head(bits) * m + carry) \div 2)

\* the integer that a short sequence of bits stands for
RECURSIVE ToInt(_)
ToInt(bits) == IF bits = << >> THEN 0 ELSE Head(bits) + 2 * ToInt(Tail(bits))

\* the significand of the double c / 255, 0 < c < 255: the first 53 bits from
\* the leading one, rounded up when the next bit is 1 (the rest is never 0)
Quotient(c) ==
    LET l == Lead(c)
        m == [k \in 1 .. Precision |-> Digit(c, l + Precision - k)]
    IN  IF Digit(c, l + Precision) = 1 THEN AddSmall(m, 1) ELSE m

\* the bits of an integer rounded to 53 significant bits, with the number of
\* low bits dropped
Rounded(bits) ==
    LET drop == Max(0, Len(bits) - Precision)
        kept == SubSeq(bits, drop + 1, Len(bits))
        up   == /\ drop > 0 /\ bits[drop] = 1
                /\ \/ \E k \in 1 .. drop - 1 : bits[k] = 1
                   \/ kept[1] = 1
    IN  [bits |-> IF up THEN AddSmall(kept, 1) ELSE kept, drop |-> drop]

\* Math.floor((c / 255) * m) in doubles
FloorScaled(c, m) ==
    IF c = 0 \/ m = 0 THEN 0
    ELSE IF c = 255 THEN m
    ELSE LET p    == Rounded(MulSmall(Quotient(c), m, 0))
             frac == Lead(c) + Precision - 1 - p.drop   \* bits after the point
         IN  ToInt(SubSeq(p.bits, frac + 1, Len(p.bits)))

\* lines 542-544: Math.min(size - 1, Math.max(0, Math.floor(c / 255 * (size - 1))))
LutCoordinate(c, size) == Min(size - 1, Max(0, FloorScaled(c, size - 1)))

\* lines 547-548, for a table of length entries
LutIndex(x, y, z, size, length) == Min(length - 1, Max(0, z + y * size + x * size * size))

\* the state of every part of the script but the pixel
aroundPixel == <<documentVars, lutFiles, lutCache, lut, load, overlay, entries, now, config>>

\* applyCubeLUT on the pixel (r, g, b, a) with a table of the given size and
\* size^3 entries: the entry read and the alpha written
ApplyToPixel(r, g, b, a, size) ==
    LET x == LutCoordinate(r, size)
        y == LutCoordinate(g, size)
        z == LutCoordinate(b, size)
    IN  /\ ~pixel.called
        /\ pixel' = [called |-> TRUE, r |-> r, g |-> g, b |-> b, a |-> a, size |-> size,
                     x |-> x, y |-> y, z |-> z,
                     idx |-> LutIndex(x, y, z, size, size ^ 3), alpha |-> a]
        /\ UNCHANGED aroundPixel

InitPixel ==
    /\ InitWith({})
    /\ stored = Snap("kodak", FALSE, FALSE, TRUE)

NextPixel ==
    \E r, g, b \in Channels : \E a \in Alphas : \E size \in LutSizes :
        ApplyToPixel(r, g, b, a, size)

SpecPixel == InitPixel /\ [][NextPixel]_vars

\* floor(c * (N - 1) / 255)
Cell(c, size) == (c * (size - 1)) \div 255

(***************************************************************************)
(* C30: applyCubeLUT on a pixel (r, g, b, a) and a table of size N with    *)
(* N^3 entries reads the entry b' + g' * N + r' * N^2, where               *)
(* c' = floor(c * (N - 1) / 255); that index is within 0 .. N^3 - 1, and   *)
(* the alpha written is the alpha of the pixel.                            *)
(***************************************************************************)
C30_EntryRead ==
    pixel.called =>
        /\ pixel.idx = Cell(pixel.b, pixel.size) + Cell(pixel.g, pixel.size) * pixel.size
                          + Cell(pixel.r, pixel.size) * pixel.size * pixel.size
        /\ pixel.idx \in 0 .. pixel.size ^ 3 - 1
        /\ pixel.alpha = pixel.a

(***************************************************************************)
(* A document with an image and a background container of ordinary size    *)
(* and an image and a background container of 20 x 20, all in the          *)
(* viewport, on which the initial run works.                               *)
(***************************************************************************)
SmallImg == 10
Background == 11
SmallBackground == 12

InitScan ==
    /\ InitWith({1, SmallImg, Background, SmallBackground})
    /\ stored \in {Snap("kodak", FALSE, FALSE, TRUE), Snap("kodak", TRUE, FALSE, TRUE)}

NextScan ==
    \/ InitializeProcessor
    \/ \E r \in runs : RunContinue(r)
    \/ \E r \in runs : RunFinal(r)
    \/ \E j \in jobs : \E outcome \in {"ok", "blocked", "fail"} : LoadDone(j, outcome)
    \/ \E j \in jobs : \E ok \in BOOLEAN : LutDone(j, ok)
    \/ \E j \in jobs : TimeoutFires(j)
    \/ \E e \in page : ClearTimerFires(e)

SpecScan == InitScan /\ [][NextScan]_vars

\* rect.width and rect.height are at least CONFIG.MIN_IMAGE_SIZE
BigEnough(e) == ElemTable[e].width >= MIN_IMAGE_SIZE /\ ElemTable[e].height >= MIN_IMAGE_SIZE

\* the candidates that the scan of a run has returned: those the run has
\* still to dispatch and those it has started a job for
Scanned == UNION { ToSet(r.rest) \cup ToSet(r.def) : r \in runs } \cup { j.el : j \in jobs }

(***************************************************************************)
(* C31: every candidate that a scan has returned, image or background      *)
(* container, is at least MIN_IMAGE_SIZE wide and high.                    *)
(***************************************************************************)
C31_ScannedBigEnough == \A e \in Scanned : BigEnough(e)

(***************************************************************************)
(* A document with an image and a background container on which the        *)
(* start-up run works and which then receives a refresh message.  The      *)
(* start-up run makes the only call of findMediaElements, on the document  *)
(* as loaded, so that findAllMediaElements answers the refresh with that   *)
(* result (window.FilmGradeExt.lastResult, lines 425-429).                 *)
(***************************************************************************)
\* window.FilmGradeExt.lastResult after the scan of the start-up run
lastResult == findAllMediaElements(page, [e \in Elems |-> NewSurface(e)])

InitRecorded ==
    /\ InitWith({1, Background})
    /\ stored = Snap("kodak", FALSE, FALSE, TRUE)

NextRecorded ==
    \/ InitializeProcessor
    \/ \E r \in runs : RunContinue(r)
    \/ \E r \in runs : RunFinal(r)
    \/ \E j \in jobs : \E outcome \in {"ok", "blocked", "fail"} : LoadDone(j, outcome)
    \/ \E j \in jobs : \E ok \in BOOLEAN : LutDone(j, ok)
    \/ \E j \in jobs : TimeoutFires(j)
    \/ \E e \in page : StaleTimeoutFires(e)
    \/ \E e \in page : ClearTimerFires(e)
    \/ \E s \in SettingsChoices : Refresh(s)
    \/ \E r \in runs : RefreshReadFrom(r, lastResult)
    \/ \E r \in runs : RefreshContinue(r)

SpecRecorded == InitRecorded /\ [][NextRecorded]_vars

(***************************************************************************)
(* C32: the original recorded on a candidate (filmGradeOriginalSrc) is     *)
(* never a data URL that the pipeline produced.                            *)
(***************************************************************************)
C32_OriginalIsHostSource ==
    \A e \in page : dom[e].orig # None => ~IsDataImage(dom[e].orig)

\* the step gives candidate e a produced asset or an overlay that it did not
\* show before
NewlyCommitted(e) ==
    \/ IsDataImage(dom'[e].src) /\ dom'[e].src # dom[e].src
    \/ dom'[e].wrapper = "attached" /\ dom[e].wrapper # "attached"

(***************************************************************************)
(* C33: once the settings handled last have the pipeline disabled, no step *)
(* commits a candidate: a job that was in flight when the pipeline was     *)
(* disabled writes no produced asset to its surface.                       *)
(***************************************************************************)
C33_NoCommitWhenDisabled ==
    [][ (~hist.on /\ ~hist'.on) => \A e \in page : ~NewlyCommitted(e) ]_vars

\* candidate e was committed directly and has been reverted since: the guard of
\* its commit was installed, the markers of the commit are gone
RevertedDirect(e) ==
    /\ Kind(e) = "img" /\ dom[e].guard
    /\ ~dom[e].locked /\ ~dom[e].processed /\ dom[e].orig = None

(***************************************************************************)
(* C34: after the revert of a directly committed candidate a write of the  *)
(* host page to src (by assignment or by setAttribute) takes effect: the   *)
(* reference then holds the value written.                                 *)
(***************************************************************************)
C34_WritableAfterRevert ==
    \A e \in page : RevertedDirect(e) =>
        \A v \in HostValues(e) : WriteSrc(dom[e], v).src = v

(***************************************************************************)
(* The overlay and its supervision when the pipeline reverts the original  *)
(* (revertElement, lines 1083-1093 and 1135-1137).  reverted says that     *)
(* revertElement has been called on the original.                          *)
(***************************************************************************)
\* revertElement on the original of the overlay: the wrapper is removed and
\* the original shown only if the wrapper's shadowRoot can be read; the
\* observer, the interval and its timer are not referred to
RevertOverlay ==
    /\ overlay.made /\ overlay.original /\ ~overlay.reverted
    /\ overlay' = IF overlay.wrapper /\ ShadowRootVisible(ShadowMode)
                  THEN [overlay EXCEPT !.wrapper = FALSE, !.hidden = FALSE,
                                       !.records = TRUE, !.reverted = TRUE]
                  ELSE [overlay EXCEPT !.reverted = TRUE]
    /\ UNCHANGED aroundOverlay

NextReverted ==
    \/ NextOverlay
    \/ RevertOverlay

SpecReverted == InitOverlay /\ [][NextReverted]_vars

(***************************************************************************)
(* C35: after the revert of an overlaid candidate no step of the           *)
(* supervision (observer callback or interval) inserts the overlay again   *)
(* or hides the original again, whatever the host does.                    *)
(***************************************************************************)
C35_SupervisionOver ==
    [][ overlay.reverted =>
            /\ overlay'.wrapper => overlay.wrapper
            /\ overlay'.hidden => overlay.hidden ]_vars

(***************************************************************************)
(* C36: a change to preset "none" with the pipeline enabled.               *)
(***************************************************************************)
\* the candidate shows output of the pipeline in the document d: its source
\* is a produced asset, or its overlay is attached
ShowsOutput(d, e) == IsDataImage(d[e].src) \/ d[e].wrapper = "attached"

\* the step is processAllMedia called by the throttle timer t
HandledBy(t) == t \in throttled /\ t \notin throttled' /\ messages' = messages

\* C36: right after processAllMedia has handled a change to preset "none"
\* with the pipeline enabled, no candidate shows output of the pipeline.
C36_NoneReverts ==
    [][ \A t \in throttled :
            (HandledBy(t) /\ t.s.preset = "none" /\ t.s.enabled)
                => \A e \in page : ~ShowsOutput(dom', e) ]_vars

(***************************************************************************)
(* C37: the in-flight markers under fair timers and load callbacks.  The   *)
(* document has an image and a background container; the start-up run and  *)
(* one applyFilter message start the invocations.                          *)
(***************************************************************************)
InitMarked ==
    /\ InitWith({1, Background})
    /\ stored \in {Snap("kodak", FALSE, FALSE, TRUE), Snap("none", TRUE, FALSE, TRUE)}

NextMarked ==
    \/ InitializeProcessor
    \/ \E s \in {Snap("kodak", FALSE, FALSE, TRUE), Snap("none", TRUE, FALSE, TRUE)} :
           ApplyFilter(s)
    \/ \E t \in throttled : ThrottleFires(t)
    \/ \E r \in runs : RunContinue(r)
    \/ \E r \in runs : RunFinal(r)
    \/ \E j \in jobs : \E outcome \in {"ok", "blocked", "fail"} : LoadDone(j, outcome)
    \/ \E j \in jobs : \E ok \in BOOLEAN : LutDone(j, ok)
    \/ \E j \in jobs : TimeoutFires(j)
    \/ \E e \in page : StaleTimeoutFires(e)
    \/ \E e \in page : ClearTimerFires(e)

\* the callbacks of loads and fetches and the timers are run when they are due
FairCallbacks ==
    /\ WF_vars(\E j \in jobs : \E outcome \in {"ok", "blocked", "fail"} : LoadDone(j, outcome))
    /\ WF_vars(\E j \in jobs : \E ok \in BOOLEAN : LutDone(j, ok))
    /\ WF_vars(\E j \in jobs : TimeoutFires(j))
    /\ WF_vars(\E e \in page : StaleTimeoutFires(e))
    /\ WF_vars(\E e \in page : ClearTimerFires(e))

SpecMarked == InitMarked /\ [][NextMarked]_vars /\ FairCallbacks

\* C37: under fair timers and load callbacks, a candidate (image or
\* background) that is marked as processing is unmarked later, whatever path
\* its invocation takes.
C37_MarkerCleared ==
    \A e \in {1, Background} : dom[e].processing ~> ~dom[e].processing

\* the background container was committed by an invocation whose marker and
\* 50 ms timer are gone
C37_Witness ==
    /\ dom[Background].processed /\ ~dom[Background].processing
    /\ clearTimers[Background] = 0 /\ JobsOf(Background) = {}

(***************************************************************************)
(* C38: the subscriptions created by observeDOM.                           *)
(***************************************************************************)
\* the MutationObservers of observeDOM that have not been disconnected
Connected == { o \in observers : o.connected }

\* C38: at every moment at most one MutationObserver created by observeDOM
\* is connected.
C38_OneSubscription == Cardinality(Connected) <= 1

(***************************************************************************)
(* CONFIG.VIEWPORT_EXPANSION under full-page scans (performFullPageScan,   *)
(* lines 1540-1597) and regular scans (findMediaElements, lines 356-361).  *)
(* A full-page scan awaits every unprocessed candidate it found; timers,   *)
(* messages and observer callbacks run in between.                         *)
(***************************************************************************)
\* the state of every part of the script but CONFIG
aroundConfig == <<documentVars, lutFiles, lutCache, lut, load, overlay, entries, now, pixel>>

\* lines 1540-1561 and 1589-1594: the scan k saves the value, puts the
\* full-sweep value in place and finds n unprocessed candidates; with none it
\* restores what it saved in the same task, otherwise it awaits the first one
performFullPageScan(k, n) ==
    /\ config.sweep[k].pc = "timer"
    /\ config' = IF n = 0
                 THEN [config EXCEPT !.sweep[k] = [pc |-> "done",
                                                   originalViewportExpansion |-> config.value,
                                                   left |-> 0]]
                 ELSE [config EXCEPT !.value = FULL_SWEEP,
                                     !.sweep[k] = [pc |-> "loop",
                                                   originalViewportExpansion |-> config.value,
                                                   left |-> n]]
    /\ UNCHANGED aroundConfig

\* lines 1567-1594: an awaited invocation of scan k has ended; after the last
\* one and the pause between batches the scan restores what it saved
FullPageScanResumes(k) ==
    /\ config.sweep[k].pc = "loop"
    /\ config' = IF config.sweep[k].left > 1
                 THEN [config EXCEPT !.sweep[k].left = @ - 1]
                 ELSE [config EXCEPT !.value = config.sweep[k].originalViewportExpansion,
                                     !.sweep[k].pc = "done", !.sweep[k].left = 0]
    /\ UNCHANGED aroundConfig

\* a regular scan: processAllMedia or checkForNewContent calls
\* findMediaElements, which reads CONFIG.VIEWPORT_EXPANSION (lines 356-361)
RegularScan ==
    /\ config' = [config EXCEPT !.read = @ \cup {config.value}]
    /\ UNCHANGED aroundConfig

InitConfig ==
    /\ InitWith({})
    /\ stored = Snap("kodak", FALSE, FALSE, TRUE)

NextConfig ==
    \/ \E k \in Sweeps : \E n \in 0 .. MaxUnprocessed : performFullPageScan(k, n)
    \/ \E k \in Sweeps : FullPageScanResumes(k)
    \/ RegularScan

SpecConfig == InitConfig /\ [][NextConfig]_vars

\* a full-page scan is between its first and its last statement
SweepRunning == \E k \in Sweeps : config.sweep[k].pc = "loop"

(***************************************************************************)
(* C39: whenever no full-page scan is running CONFIG.VIEWPORT_EXPANSION    *)
(* has its configured value, also after scans that overlapped, and no      *)
(* regular scan has read the full-sweep value.                             *)
(***************************************************************************)
C39_ExpansionRestored ==
    /\ ~SweepRunning => config.value = VIEWPORT_EXPANSION
    /\ config.read \subseteq {VIEWPORT_EXPANSION}

=========================================================================
